---- MODULE Spec2Model ----
(***************************************************************************)
(* Flash file watcher: the change-detection-to-dispatch pipeline.          *)
(*                                                                         *)
(* The main thread of src/main.rs (the `for path in rx` loop with the      *)
(* debounce map and the CommandRunner), the watcher callback thread that   *)
(* feeds the channel, the child processes the runner spawns, and the       *)
(* monotonic clock read by Instant::now().  Times are milliseconds.        *)
(* Paths, globs and extension filters are sequences of one-character       *)
(* strings, so that glob matching, Path::parent and Path::extension are    *)
(* computed and not assumed.                                               *)
(***************************************************************************)
EXTENDS Integers, Sequences, FiniteSets, TLC

\* ------------------------------------------------------------------------
\* Bounds of the model
\* ------------------------------------------------------------------------

\* longest content of the mpsc channel
MaxQueue == 2

\* number of notifications the watch subsystem delivers in one behaviour
MaxEvents == 3

\* number of times the clock advances in one behaviour
MaxTicks == 2

\* number of dry_run() calls in one behaviour
MaxDryRuns == 2

\* threads that record into the stats collector, and the record operations
\* of each kind that each of them performs
NumThreads == 2
Iterations == 1

\* longest list of --watch arguments
MaxSpecs == 2

\* fields that a command line sets, and keys that a config file has
MaxGiven == 2

\* ------------------------------------------------------------------------
\* Paths and glob patterns
\* ------------------------------------------------------------------------

\* std::path::is_separator on unix
IsSeparator(c) == c = "/"

\* s without its first n elements
Drop(s, n) == SubSeq(s, n + 1, Len(s))

\* glob::Pattern::matches_from with the default MatchOptions
\* (require_literal_separator and require_literal_leading_dot are false):
\* "*" is AnySequence, "**" is AnyRecursiveSequence, "?" is AnyChar and any
\* other token is Char.  A pattern is the token list Pattern::new builds, in
\* which a "**" has absorbed the separator that follows it.
RECURSIVE GlobMatchesFrom(_, _)
GlobMatchesFrom(tokens, file) ==
    IF tokens = << >> THEN file = << >>
    ELSE LET tok == Head(tokens)
             rest == Tail(tokens)
         IN CASE tok = "*" ->
                   \E k \in 0..Len(file) : GlobMatchesFrom(rest, Drop(file, k))
              [] tok = "**" ->
                   \/ GlobMatchesFrom(rest, file)
                   \/ \E k \in 1..Len(file) :
                         /\ IsSeparator(file[k]) \/ k = Len(file)
                         /\ GlobMatchesFrom(rest, Drop(file, k))
              [] tok = "?" ->
                   file # << >> /\ GlobMatchesFrom(rest, Tail(file))
              [] OTHER ->
                   /\ file # << >>
                   /\ Head(file) = tok
                   /\ GlobMatchesFrom(rest, Tail(file))

\* Pattern::matches_path
MatchesPath(pattern, path) == GlobMatchesFrom(pattern, path)

\* positions of the separators of a path
SepPositions(path) == {i \in 1..Len(path) : IsSeparator(path[i])}

Max(S) == CHOOSE x \in S : \A y \in S : y <= x

\* the value of Option::None for a path
NoPath == <<"<none>">>

\* Path::parent: the path without its final component; None for the empty
\* path and for the root
Parent(path) ==
    IF path = << >> \/ path = <<"/">> THEN NoPath
    ELSE IF SepPositions(path) = {} THEN << >>
    ELSE LET i == Max(SepPositions(path))
         IN IF i = 1 THEN <<"/">> ELSE SubSeq(path, 1, i - 1)

\* the ancestors visited by `while let Some(parent) = current.parent()`
RECURSIVE Ancestors(_)
Ancestors(path) ==
    IF Parent(path) = NoPath THEN {}
    ELSE {Parent(path)} \cup Ancestors(Parent(path))

\* Path::file_name for a path of normal components
FileName(path) ==
    IF SepPositions(path) = {} THEN path
    ELSE Drop(path, Max(SepPositions(path)))

\* the value of Option::None for an extension or an extension filter
NoExt == <<"<none>">>

\* Path::extension: the part of the file name after its last dot; None when
\* there is no dot or the only dot is the first character
Extension(path) ==
    LET name == FileName(path)
        dots == {i \in 1..Len(name) : name[i] = "."}
    IN IF dots = {} \/ Max(dots) = 1 THEN NoExt
       ELSE Drop(name, Max(dots))

\* str::split(',')
RECURSIVE SplitComma(_)
SplitComma(s) ==
    LET commas == {i \in 1..Len(s) : s[i] = ","}
    IN IF commas = {} THEN <<s>>
       ELSE LET i == CHOOSE x \in commas : \A y \in commas : x <= y
            IN <<SubSeq(s, 1, i - 1)>> \o SplitComma(Drop(s, i))

\* str::trim
RECURSIVE Trim(_)
Trim(s) ==
    IF s = << >> THEN s
    ELSE IF Head(s) = " " THEN Trim(Tail(s))
    ELSE IF s[Len(s)] = " " THEN Trim(SubSeq(s, 1, Len(s) - 1))
    ELSE s

\* a comparison with the tokens as they are written, blanks included
ExtListedUntrimmed(ext_list, ext) ==
    \E i \in 1..Len(SplitComma(ext_list)) : SplitComma(ext_list)[i] = ext

\* extensions.split(',').any(|e| e.trim() == ext_str)
ExtListed(ext_list, ext) ==
    \E i \in 1..Len(SplitComma(ext_list)) : Trim(SplitComma(ext_list)[i]) = ext

\* the ignore check of the binary: the path itself, then every ancestor
IgnoredMain(path, ignore_patterns) ==
    \E i \in 1..Len(ignore_patterns) :
        \/ MatchesPath(ignore_patterns[i], path)
        \/ \E a \in Ancestors(path) : MatchesPath(ignore_patterns[i], a)

\* a filter without the include step
should_process_path_any(path, extensions, include_patterns, ignore_patterns) ==
    IF IgnoredMain(path, ignore_patterns) THEN FALSE
    ELSE IF extensions = NoExt THEN TRUE
    ELSE IF Extension(path) # NoExt THEN ExtListed(extensions, Extension(path))
    ELSE FALSE

\* should_process_path of the binary (src/main.rs)
should_process_path(path, extensions, include_patterns, ignore_patterns) ==
    IF IgnoredMain(path, ignore_patterns) THEN FALSE
    ELSE IF /\ include_patterns # << >>
            /\ ~ \E i \in 1..Len(include_patterns) :
                    MatchesPath(include_patterns[i], path)
         THEN FALSE
    ELSE IF extensions = NoExt THEN TRUE
    ELSE IF Extension(path) # NoExt THEN ExtListed(extensions, Extension(path))
    ELSE FALSE

\* the ignore check of the library: the path itself only
IgnoredLib(path, ignore_patterns) ==
    \E i \in 1..Len(ignore_patterns) : MatchesPath(ignore_patterns[i], path)

\* should_process_path of the library (src/lib.rs)
lib_should_process_path(path, ext_filter, include_patterns, ignore_patterns) ==
    IF IgnoredLib(path, ignore_patterns) THEN FALSE
    ELSE IF ext_filter # NoExt /\ Extension(path) = NoExt THEN FALSE
    ELSE IF ext_filter # NoExt /\ ~ExtListed(ext_filter, Extension(path)) THEN FALSE
    ELSE IF include_patterns # << >>
         THEN \E i \in 1..Len(include_patterns) :
                 MatchesPath(include_patterns[i], path)
    ELSE TRUE


\* ------------------------------------------------------------------------
\* The dispatch loop: configuration and state
\* ------------------------------------------------------------------------

\* the paths the watch subsystem reports: two sources and a file under the
\* ignored directory n
PathApp == <<"s", "/", "a", ".", "j", "s">>
PathLib == <<"s", "/", "b", ".", "j", "s">>
PathDep == <<"n", "/", "i", ".", "j", "s">>
Paths == {PathApp, PathLib, PathDep}

\* args.ext, args.pattern and args.ignore of the watched project:
\* --ext js --ignore "**/n/**"
WatchedExt == <<"j", "s">>
IncludeGlobs == << >>
IgnoreGlobs == << <<"**", "n", "/", "**">> >>

\* the retention of recently_processed, in milliseconds
Retention == 10000

\* args.debounce: the default of 100 ms, no debounce, and a window longer
\* than the retention of the debounce map
DefaultDebounce == 100
LongDebounce == 2 * Retention
DebounceValues == {0, DefaultDebounce, LongDebounce}

\* the amounts, in ms, by which the clock advances between two steps
Steps == {10, 140, Retention}

\* no entry in recently_processed
NoTime == -1

\* Option<Child>::None
NoProc == 0

\* process ids of the children, one per run() at most
Pids == 1..MaxEvents

\* notify::EventKind, and Err for a watcher error
Kinds == {"Create", "Modify", "Remove", "Access", "Err"}

\* what the watch subsystem hands to the callback: a modification of any
\* path, and a notification of every other kind
Notifications ==
    [kind : {"Modify"}, paths : {<<p>> : p \in Paths}]
        \cup [kind : Kinds \ {"Modify"}, paths : {<<PathApp>>}]

\* a command line to run, and the default of --watch
EchoCommand == <<"e", "c", "h", "o">>
DefaultWatch == << <<".">> >>

\* the default of --stats-interval, in seconds
DefaultStatsInterval == 10

\* Option<T>: None, with a value of the type to fill the field, and Some(v)
None(v) == [some |-> FALSE, value |-> v]
Some(v) == [some |-> TRUE, value |-> v]

\* the Args of a command line without arguments
DefaultArgs ==
    [command |-> << >>, watch |-> DefaultWatch, ext |-> NoExt,
     pattern |-> << >>, ignore |-> << >>, debounce |-> DefaultDebounce,
     initial |-> FALSE, clear |-> FALSE, restart |-> FALSE, stats |-> FALSE,
     stats_interval |-> DefaultStatsInterval]

\* the fields of Config apart from `command`, which is not an Option
OptionFields == DOMAIN DefaultArgs \ {"command"}

\* no --config: a Config that is never merged
NoConfig ==
    [f \in DOMAIN DefaultArgs \cup {"given"} |->
        IF f = "given" THEN FALSE
        ELSE IF f = "command" THEN << >> ELSE None(DefaultArgs[f])]

\* a merge in which the file wins wherever it provides a value
merge_config_file_wins(a, c) ==
    [f \in DOMAIN a |->
        IF f = "command" THEN (IF c.command # << >> THEN c.command ELSE a.command)
        ELSE IF c[f].some THEN c[f].value ELSE a[f]]

\* merge_config: a field of the Args that still has its default takes the
\* value the file provides
merge_config(a, c) ==
    [command |-> IF a.command = << >> /\ c.command # << >>
                 THEN c.command ELSE a.command,
     watch |-> IF Len(a.watch) = 1 /\ a.watch[1] = <<".">> /\ c.watch.some
               THEN c.watch.value ELSE a.watch,
     ext |-> IF a.ext = NoExt /\ c.ext.some THEN c.ext.value ELSE a.ext,
     pattern |-> IF a.pattern = << >> /\ c.pattern.some
                 THEN c.pattern.value ELSE a.pattern,
     ignore |-> IF a.ignore = << >> /\ c.ignore.some
                THEN c.ignore.value ELSE a.ignore,
     debounce |-> IF a.debounce = 100 /\ c.debounce.some
                  THEN c.debounce.value ELSE a.debounce,
     initial |-> IF ~a.initial /\ c.initial.some
                 THEN c.initial.value ELSE a.initial,
     clear |-> IF ~a.clear /\ c.clear.some THEN c.clear.value ELSE a.clear,
     restart |-> IF ~a.restart /\ c.restart.some
                 THEN c.restart.value ELSE a.restart,
     stats |-> IF ~a.stats /\ c.stats.some THEN c.stats.value ELSE a.stats,
     stats_interval |-> IF a.stats_interval = 10 /\ c.stats_interval.some
                        THEN c.stats_interval.value ELSE a.stats_interval]

\* the stats timer thread, and the value of an unlocked mutex
Timer == 0
NoThread == -1
Workers == 1..NumThreads
Threads == Workers \cup {Timer}
NoIterations == [fc |-> 0, wc |-> 0]

VARIABLES
    clock,              \* the monotonic clock behind Instant::now(), in ms
    ticks,              \* how often the clock has advanced
    chan,               \* the mpsc channel from the callback to the loop
    calls,              \* how many notifications the callback has got
    restart,            \* args.restart
    debounce,           \* args.debounce
    stats_enabled,      \* args.stats
    recently_processed, \* path -> instant of its last dispatch, or NoTime
    now,                \* the loop's local `now` of the event being dispatched
    pc,                 \* position of the main thread
    current_process,    \* runner.current_process
    child,              \* the `child` local of run()
    procs,              \* pid -> "none" | "running" | "exited" | "reaped"
    file_changes,       \* StatsCollector.file_changes
    watcher_calls,      \* StatsCollector.watcher_calls
    last_run,           \* what the last run() did and returned
    last_event,         \* the last event received and what the loop decided
    last_dispatch,      \* path -> instant of its last dispatch, never purged
    hist,               \* the events received for PathApp, in order
    fq,                 \* the arguments of a should_process_path call
    fres,               \* its results
    command,            \* runner.command
    watch,              \* args.watch
    sent,               \* the paths the callback has sent, in order
    last_dry_run,       \* what the last dry_run() did and returned
    mutex,              \* the thread that holds the Mutex<StatsCollector>
    tpc,                \* thread -> its position
    iter,               \* thread -> the iterations of its loop it has done
    tmp,                \* thread -> the counter value its `+= 1` has loaded
    usage,              \* StatsCollector.last_memory_usage / last_cpu_usage
    shown,              \* what display_stats printed last
    next_spec,          \* setup_watcher: index of the next watch spec
    watched_paths,      \* setup_watcher: the HashSet watched_paths
    registered,         \* the paths given to watcher.watch, in order
    watch_count,        \* setup_watcher: watch_count
    setup,              \* how far the startup and setup_watcher have got
    startup             \* the Args and the Config that the startup works on

vars == <<clock, ticks, chan, calls, restart, debounce, stats_enabled,
          recently_processed, now, pc, current_process, child, procs,
          file_changes, watcher_calls, last_run, last_event, last_dispatch,
          hist, fq, fres, command, watch, sent, last_dry_run, mutex, tpc,
          iter, tmp, usage, shown, next_spec, watched_paths, registered,
          watch_count, setup, startup>>

config == <<restart, debounce, stats_enabled, command, watch, startup>>

\* the Args that Args::parse() has returned, the Config of --config, and
\* the Args that main works with
cli == startup.cli
config_file == startup.config_file
args == startup.args
filterVars == <<fq, fres>>
runnerVars == <<current_process, child, procs, last_run>>
statsVars == <<file_changes, watcher_calls>>
loopVars == <<recently_processed, now, last_event, last_dispatch, hist>>
threadVars == <<mutex, tpc, iter, tmp, usage, shown>>
setupVars == <<next_spec, watched_paths, registered, watch_count, setup>>
\* what the dispatch loop and run() never touch
sideVars == <<last_dry_run, threadVars, setupVars>>

NoQuery == [path |-> << >>, ext |-> NoExt, include |-> << >>, ignore |-> << >>]
NoResult == [asked |-> FALSE, main |-> FALSE, lib |-> FALSE]
NoRun == [result |-> "none", spawned |-> FALSE, waited |-> "none"]
NoEvent == [path |-> << >>, at |-> 0, seen |-> NoTime, prior |-> NoTime,
            verdict |-> "none"]
NoDryRun == [result |-> "none", held |-> NoProc, calls |-> 0]
NoUsage == [memory |-> 0, cpu |-> 0]
NoDisplay == [file_changes |-> 0, watcher_calls |-> 0, usage |-> NoUsage]

\* the state when the loop starts, for a given configuration
Start ==
    /\ clock = 0
    /\ ticks = 0
    /\ chan = << >>
    /\ calls = 0
    /\ recently_processed = [p \in Paths |-> NoTime]
    /\ now = 0
    /\ pc = "recv"
    /\ current_process = NoProc
    /\ child = NoProc
    /\ procs = [i \in Pids |-> "none"]
    /\ file_changes = 0
    /\ watcher_calls = 0
    /\ last_run = NoRun
    /\ last_event = NoEvent
    /\ last_dispatch = [p \in Paths |-> NoTime]
    /\ hist = << >>
    /\ fq = NoQuery
    /\ fres = NoResult
    /\ sent = << >>
    /\ last_dry_run = NoDryRun

\* the stats collector as StatsCollector::new() leaves it, unlocked, and no
\* thread in it
StartStats ==
    /\ mutex = NoThread
    /\ tpc = [t \in Threads |-> "idle"]
    /\ iter = [t \in Workers |-> NoIterations]
    /\ tmp = [t \in Threads |-> 0]
    /\ usage = NoUsage
    /\ shown = NoDisplay

\* setup_watcher before its loop over args.watch
StartSetup ==
    /\ next_spec = 1
    /\ watched_paths = {}
    /\ registered = << >>
    /\ watch_count = 0
    /\ setup = "running"

\* the startup is over: the Args are the configuration in the variables,
\* and neither the command line nor the Config is looked at again
Ready == << >>
StartArgs == startup = Ready

Init ==
    /\ restart \in BOOLEAN
    /\ debounce \in DebounceValues
    /\ stats_enabled = TRUE
    /\ command = EchoCommand
    /\ watch = DefaultWatch
    /\ Start
    /\ StartStats
    /\ StartSetup
    /\ StartArgs

\* ------------------------------------------------------------------------
\* The clock and the watcher callback thread
\* ------------------------------------------------------------------------

\* time passes, at any point of either thread
Tick(d) ==
    /\ ticks < MaxTicks
    /\ clock' = clock + d
    /\ ticks' = ticks + 1
    /\ UNCHANGED <<chan, calls, config, loopVars, pc, runnerVars, statsVars,
                   filterVars, sideVars, sent>>

\* a callback that sends the paths of a notification of any kind
ForwardedAny(kind, paths) == paths

\* what the callback sends for one notification: every path of a Create,
\* Modify or Remove event, nothing for another kind or a watcher error
Forwarded(kind, paths) ==
    IF kind \in {"Create", "Modify", "Remove"} THEN paths ELSE << >>

\* a channel that hands over the newest path first
SendFirst(queue, paths) == paths \o queue

\* event_tx.send(path) for each path of the event, in their order: the
\* paths join the end of the channel
Send(queue, paths) == queue \o paths

\* the closure given to notify::recommended_watcher
WatcherCallback(kind, paths) ==
    /\ kind # "Err" => calls < MaxEvents
    /\ Len(chan) + Len(Forwarded(kind, paths)) <= MaxQueue
    /\ calls' = IF kind # "Err" THEN calls + 1 ELSE calls
    /\ watcher_calls' =
          IF kind # "Err" /\ stats_enabled THEN watcher_calls + 1
          ELSE watcher_calls
    /\ chan' = Send(chan, Forwarded(kind, paths))
    /\ UNCHANGED <<clock, ticks, config, loopVars, pc, runnerVars,
                   file_changes, filterVars, sideVars>>

\* ------------------------------------------------------------------------
\* The main thread: debounce, CommandRunner::run, purge
\* ------------------------------------------------------------------------

\* a debounce check that never skips
DebounceSkipNever(map, key, t, window) == FALSE

\* a debounce check that still skips when exactly `window` ms have passed
DebounceSkipInclusive(map, key, t, window) ==
    /\ map[key] # NoTime
    /\ t - map[key] <= window

\* the debounce check: the path was dispatched less than `window` ms ago
DebounceSkip(map, key, t, window) ==
    /\ map[key] # NoTime
    /\ t - map[key] < window

\* an insert placed before the debounce check: skipped events refresh the
\* timestamp too
InsertAlways(map, key, t, dispatch) == [map EXCEPT ![key] = t]

\* recently_processed.insert(path_key, now), reached only by an event that
\* is dispatched: a skipped event leaves through `continue` before it
InsertOnDispatch(map, key, t, dispatch) ==
    IF dispatch THEN [map EXCEPT ![key] = t] ELSE map

\* a purge that empties the map
RetainNothing(map, t) == [k \in DOMAIN map |-> NoTime]

\* a purge that keeps an entry that is exactly as old as the retention
RetainInclusive(map, t) ==
    [k \in DOMAIN map |->
        IF map[k] # NoTime /\ t - map[k] <= Retention THEN map[k] ELSE NoTime]

\* recently_processed.retain(|_, time| now - time < 10000)
Retain(map, t) ==
    [k \in DOMAIN map |->
        IF map[k] # NoTime /\ t - map[k] < Retention THEN map[k] ELSE NoTime]

\* a record_file_change that is not behind `if args.stats`
RecordFileChangeAlways(n, enabled) == n + 1

\* stats.record_file_change(), behind `if args.stats`
RecordFileChange(n, enabled) == IF enabled THEN n + 1 ELSE n

\* a run() that forgets the previous child
KillPreviousNone(ps, held, restart_mode) == ps

\* the head of run(): in restart mode kill the held child and wait for it
KillPrevious(ps, held, restart_mode) ==
    IF restart_mode /\ held # NoProc
    THEN [ps EXCEPT ![held] = "reaped"]
    ELSE ps

\* the pid the next spawn gets
NextPid ==
    CHOOSE i \in Pids :
        procs[i] = "none" /\ \A j \in 1..(i - 1) : procs[j] # "none"

\* a run() that keeps the handle of every child it spawns
HeldAfterSpawnAlways(held, pid, restart_mode) == pid

\* runner.current_process once the spawn has succeeded: `if self.restart
\* { self.current_process = Some(child) }`
HeldAfterSpawn(held, pid, restart_mode) == IF restart_mode THEN pid ELSE held

\* a run() that never waits for the child
WaitsForChildNever(restart_mode) == FALSE

\* whether run() goes on to child.wait_with_output(): the else branch of
\* `if self.restart`
WaitsForChild(restart_mode) == ~restart_mode

\* a run() that reports a failing exit status as its own error
ResultOfWaitStrict(outcome) == IF outcome = "success" THEN "Ok" ELSE "Err"

\* what run() returns once wait_with_output has returned: a wait error is
\* propagated by `?`, an exit status of either kind is Ok
ResultOfWait(outcome) == IF outcome = "wait_error" THEN "Err" ELSE "Ok"

\* a loop that propagates the error of run() with `?` and ends
AfterRunAbort(result) == IF result = "Err" THEN "exited" ELSE "recv"

\* where the loop goes when run() has returned: the error of a failed run
\* is printed and the loop goes on
AfterRun(result) == "recv"

\* the tail of a loop iteration once run() has returned `result`: the error
\* is logged, old entries of recently_processed are purged and the loop
\* receives again
LoopAfterRun(result) ==
    /\ pc' = AfterRun(result)
    /\ recently_processed' =
          IF AfterRun(result) = "recv" THEN Retain(recently_processed, now)
          ELSE recently_processed

\* the paths that pass should_process_path under the configured filters
AcceptedPaths ==
    {p \in Paths : should_process_path(p, WatchedExt, IncludeGlobs, IgnoreGlobs)}

\* what the loop decides for the event at the head of the channel
Accepted(path) == path \in AcceptedPaths
Dispatched(path) ==
    Accepted(path) /\ ~DebounceSkip(recently_processed, path, clock, debounce)
Verdict(path) ==
    IF ~Accepted(path) THEN "filtered"
    ELSE IF Dispatched(path) THEN "dispatched" ELSE "debounced"

\* one iteration of `for path in rx` up to the call of runner.run(): the
\* event is dropped by should_process_path or by the debounce check, or it
\* is dispatched. With at_lock the step of a dispatch under --stats ends in
\* front of stats_collector.lock(), otherwise it includes the lock, the
\* count and the drop of the guard
ReceiveUpTo(at_lock) ==
    /\ pc = "recv"
    /\ chan # << >>
    /\ chan' = Tail(chan)
    /\ LET path == Head(chan)
       IN /\ last_event' = [path |-> path, at |-> clock,
                            seen |-> recently_processed[path],
                            prior |-> last_dispatch[path],
                            verdict |-> Verdict(path)]
          /\ recently_processed' =
                IF Accepted(path)
                THEN InsertOnDispatch(recently_processed, path, clock,
                                      Dispatched(path))
                ELSE recently_processed
          /\ IF Dispatched(path)
             THEN /\ now' = clock
                  /\ last_dispatch' = [last_dispatch EXCEPT ![path] = clock]
                  /\ IF at_lock /\ stats_enabled
                     THEN pc' = "record" /\ UNCHANGED file_changes
                     ELSE /\ file_changes' =
                                RecordFileChange(file_changes, stats_enabled)
                          /\ pc' = "run_kill"
             ELSE UNCHANGED <<now, last_dispatch, file_changes, pc>>
    /\ UNCHANGED <<clock, ticks, calls, config, runnerVars, watcher_calls,
                   filterVars, sideVars, sent>>

ReceiveEvent == ReceiveUpTo(FALSE)

Receive == ReceiveEvent /\ UNCHANGED hist

\* run(): the previous child is killed and reaped
RunKill ==
    /\ pc = "run_kill"
    /\ procs' = KillPrevious(procs, current_process, restart)
    /\ pc' = "run_spawn"
    /\ UNCHANGED <<clock, ticks, chan, calls, config, loopVars,
                   current_process, child, last_run, statsVars, filterVars,
                   sideVars, sent>>

\* run(): the shell is spawned; a failed spawn makes run() return the error;
\* in restart mode the handle is stored and run() returns Ok
RunSpawn(ok) ==
    /\ pc = "run_spawn"
    /\ IF ~ok
       THEN /\ last_run' = [result |-> "Err", spawned |-> FALSE, waited |-> "none"]
            /\ LoopAfterRun("Err")
            /\ UNCHANGED <<procs, current_process, child>>
       ELSE /\ procs' = [procs EXCEPT ![NextPid] = "running"]
            /\ current_process' =
                  HeldAfterSpawn(current_process, NextPid, restart)
            /\ IF WaitsForChild(restart)
               THEN /\ child' = NextPid
                    /\ pc' = "run_wait"
                    /\ UNCHANGED <<last_run, recently_processed>>
               ELSE /\ last_run' = [result |-> "Ok", spawned |-> TRUE, waited |-> "none"]
                    /\ LoopAfterRun("Ok")
                    /\ UNCHANGED child
    /\ UNCHANGED <<clock, ticks, chan, calls, config, now, last_event,
                   last_dispatch, hist, statsVars, filterVars,
                   sideVars, sent>>

\* a running child exits by itself; the exit of the child that run() is
\* waiting for is the step RunWait
ChildExit(p) ==
    /\ procs[p] = "running"
    /\ p # child
    /\ procs' = [procs EXCEPT ![p] = "exited"]
    /\ UNCHANGED <<clock, ticks, chan, calls, config, loopVars, pc,
                   current_process, child, last_run, statsVars, filterVars,
                   sideVars, sent>>

\* what child.wait_with_output() can return once the child has exited: a
\* successful or a failing exit status, or an I/O error of the wait itself
WaitOutcomes == {"success", "failure", "wait_error"}

\* run() without restart mode: the child exits and child.wait_with_output()
\* returns
RunWait(outcome) ==
    /\ pc = "run_wait"
    /\ procs[child] = "running"
    /\ procs' = [procs EXCEPT ![child] = "reaped"]
    /\ child' = NoProc
    /\ last_run' = [result |-> ResultOfWait(outcome), spawned |-> TRUE,
                    waited |-> outcome]
    /\ LoopAfterRun(ResultOfWait(outcome))
    /\ UNCHANGED <<clock, ticks, chan, calls, config, now, last_event,
                   last_dispatch, hist, current_process, statsVars, filterVars,
                   sideVars, sent>>

\* the steps of the clock, the callback thread, the children and run()
Others ==
    \/ \E d \in Steps : Tick(d)
    \/ \E n \in Notifications :
          WatcherCallback(n.kind, n.paths) /\ UNCHANGED sent
    \/ RunKill
    \/ \E ok \in BOOLEAN : RunSpawn(ok)
    \/ \E p \in Pids : ChildExit(p)
    \/ \E o \in WaitOutcomes : RunWait(o)

Next == Receive \/ Others

Spec == Init /\ [][Next]_vars


\* ------------------------------------------------------------------------
\* The scenario of section 8: debounce 100 ms, the events for PathApp logged
\* ------------------------------------------------------------------------

InitScenario ==
    /\ restart \in BOOLEAN
    /\ debounce = DefaultDebounce
    /\ stats_enabled = TRUE
    /\ command = EchoCommand
    /\ watch = DefaultWatch
    /\ Start
    /\ StartStats
    /\ StartSetup
    /\ StartArgs

ReceiveLogged ==
    /\ ReceiveEvent
    /\ hist' = IF Head(chan) = PathApp
               THEN Append(hist, [at |-> clock,
                                  dispatched |-> Dispatched(PathApp)])
               ELSE hist

NextScenario == ReceiveLogged \/ Others

SpecScenario == InitScenario /\ [][NextScenario]_vars

\* ------------------------------------------------------------------------
\* should_process_path as a function: both copies on the same arguments
\* ------------------------------------------------------------------------

\* src/app.js, a dependency, a nested dependency, a file without extension
\* and a TypeScript file
PathNested == <<"p", "/", "n", "/", "x", ".", "j", "s">>
PathMake == <<"M", "k">>
PathTs == <<"a", ".", "t", "s">>
QueryPaths == {PathApp, PathDep, PathNested, PathMake, PathTs}

\* no --ext, "js", "js, ts", ".js" and "JS"
QueryExts ==
    {NoExt, <<"j", "s">>, <<"j", "s", ",", " ", "t", "s">>,
     <<".", "j", "s">>, <<"J", "S">>}

\* no --pattern, "s/**/*" and "*.js"
QueryIncludes ==
    {<< >>, << <<"s", "/", "**", "*">> >>, << <<"*", ".", "j", "s">> >>}

\* no --ignore, "**/n/**", "**/n" and "n"
QueryIgnores ==
    {<< >>, << <<"**", "n", "/", "**">> >>, << <<"**", "n">> >>, << <<"n">> >>}

Queries ==
    [path : QueryPaths, ext : QueryExts, include : QueryIncludes,
     ignore : QueryIgnores]

InitPath ==
    /\ restart = FALSE
    /\ debounce = DefaultDebounce
    /\ stats_enabled = FALSE
    /\ command = EchoCommand
    /\ watch = DefaultWatch
    /\ Start
    /\ StartStats
    /\ StartSetup
    /\ StartArgs

\* a caller picks the arguments
Ask(q) ==
    /\ fq' = q
    /\ fres' = NoResult
    /\ UNCHANGED <<clock, ticks, chan, calls, config, loopVars, pc,
                   runnerVars, statsVars, sideVars, sent>>

\* both functions return
Answer ==
    /\ fq # NoQuery
    /\ ~fres.asked
    /\ fres' = [asked |-> TRUE,
                main |-> should_process_path(fq.path, fq.ext, fq.include,
                                             fq.ignore),
                lib |-> lib_should_process_path(fq.path, fq.ext, fq.include,
                                                fq.ignore)]
    /\ UNCHANGED <<clock, ticks, chan, calls, config, loopVars, pc,
                   runnerVars, statsVars, fq, sideVars, sent>>

NextPath == (\E q \in Queries : Ask(q)) \/ Answer

SpecPath == InitPath /\ [][NextPath]_vars


\* ------------------------------------------------------------------------
\* The channel: what the callback sends and what the loop receives
\* ------------------------------------------------------------------------

\* notifications of one and of two paths, one that is not forwarded, and an
\* error of the watch subsystem
ChannelNotifications ==
    [kind : {"Modify", "Remove"}, paths : {<<p>> : p \in Paths}]
        \cup {[kind |-> "Create", paths |-> <<PathApp, PathLib>>],
              [kind |-> "Create", paths |-> <<PathDep, PathApp>>],
              [kind |-> "Access", paths |-> <<PathApp>>],
              [kind |-> "Err", paths |-> << >>]}

InitChannel ==
    /\ restart \in BOOLEAN
    /\ debounce \in {0, DefaultDebounce}
    /\ stats_enabled = TRUE
    /\ command = EchoCommand
    /\ watch = DefaultWatch
    /\ Start
    /\ StartStats
    /\ StartSetup
    /\ StartArgs

\* the callback, with the paths it sends logged; every dispatched path takes
\* one pid
CallbackTraced(kind, paths) ==
    /\ Len(sent) + Len(Forwarded(kind, paths)) <= MaxEvents
    /\ WatcherCallback(kind, paths)
    /\ sent' = sent \o Forwarded(kind, paths)

\* the loop, with every path it takes from the channel logged
ReceiveTraced ==
    /\ ReceiveEvent
    /\ hist' = Append(hist, [path |-> Head(chan), at |-> clock,
                             dispatched |-> Dispatched(Head(chan))])

NextChannel ==
    \/ \E n \in ChannelNotifications : CallbackTraced(n.kind, n.paths)
    \/ ReceiveTraced
    \/ RunKill
    \/ \E ok \in BOOLEAN : RunSpawn(ok)
    \/ \E p \in Pids : ChildExit(p)
    \/ \E o \in WaitOutcomes : RunWait(o)

SpecChannel == InitChannel /\ [][NextChannel]_vars

\* the same threads with and without --stats
InitCount ==
    /\ restart \in BOOLEAN
    /\ debounce \in {0, DefaultDebounce}
    /\ stats_enabled \in BOOLEAN
    /\ command = EchoCommand
    /\ watch = DefaultWatch
    /\ Start
    /\ StartStats
    /\ StartSetup
    /\ StartArgs

SpecCount == InitCount /\ [][NextChannel]_vars

\* the steps of the main thread in the loop; the step RunWait is the exit
\* of the command that run() waits for
LoopSteps ==
    \/ ReceiveTraced
    \/ RunKill
    \/ \E ok \in BOOLEAN : RunSpawn(ok)
    \/ \E o \in WaitOutcomes : RunWait(o)

\* the loop with the events of one path that passes the filters and of one
\* that does not, a main thread that is scheduled and commands that exit
NextLoop ==
    \/ \E p \in {PathApp, PathDep} : CallbackTraced("Modify", <<p>>)
    \/ LoopSteps
    \/ \E p \in Pids : ChildExit(p)

SpecLoopFair == InitChannel /\ [][NextLoop]_vars /\ WF_vars(LoopSteps)

\* ------------------------------------------------------------------------
\* CommandRunner of src/lib.rs: run() and dry_run() called in any order
\* ------------------------------------------------------------------------

\* a runner made by CommandRunner::new, with an empty or a non-empty command
InitRunner ==
    /\ restart \in BOOLEAN
    /\ command \in {<< >>, EchoCommand}
    /\ debounce = DefaultDebounce
    /\ stats_enabled = FALSE
    /\ watch = DefaultWatch
    /\ Start
    /\ StartStats
    /\ StartSetup
    /\ StartArgs

\* the caller calls run(); a spawn needs a free pid
CallRun ==
    /\ pc = "recv"
    /\ \E i \in Pids : procs[i] = "none"
    /\ pc' = "run_kill"
    /\ UNCHANGED <<clock, ticks, chan, calls, config, loopVars, runnerVars,
                   statsVars, filterVars, sideVars, sent>>

\* a dry_run() that fails on no command
DryRunResultOk(cmd) == "Ok"

\* what dry_run() returns: bail!("Empty command") on an empty command
DryRunResult(cmd) == IF cmd = << >> THEN "Err" ELSE "Ok"

\* a dry_run() that leaves a stand-in handle in restart mode
DryRunHandleSimulated(held, restart_mode) ==
    IF restart_mode THEN Max(Pids) ELSE held

\* runner.current_process after dry_run(): `if self.restart &&
\* self.current_process.is_some() { self.current_process = None }`
DryRunHandle(held, restart_mode) ==
    IF restart_mode /\ held # NoProc THEN NoProc ELSE held

\* dry_run(): the held handle is cleared, without kill() or wait(), before
\* the command is looked at; no process is spawned
DryRun ==
    /\ pc = "recv"
    /\ last_dry_run.calls < MaxDryRuns
    /\ current_process' = DryRunHandle(current_process, restart)
    /\ last_dry_run' = [result |-> DryRunResult(command),
                        held |-> current_process,
                        calls |-> last_dry_run.calls + 1]
    /\ UNCHANGED <<clock, ticks, chan, calls, config, loopVars, pc, child,
                   procs, last_run, statsVars, filterVars, threadVars,
                   setupVars, sent>>

NextRunner ==
    \/ CallRun
    \/ DryRun
    \/ RunKill
    \/ \E ok \in BOOLEAN : RunSpawn(ok)
    \/ \E p \in Pids : ChildExit(p)
    \/ \E o \in WaitOutcomes : RunWait(o)

SpecRunner == InitRunner /\ [][NextRunner]_vars

\* ------------------------------------------------------------------------
\* The stats collector behind its mutex: recording threads and the timer
\* ------------------------------------------------------------------------

InitStats ==
    /\ restart = FALSE
    /\ debounce = DefaultDebounce
    /\ stats_enabled = TRUE
    /\ command = EchoCommand
    /\ watch = DefaultWatch
    /\ Start
    /\ StartStats
    /\ StartSetup
    /\ StartArgs

\* a lock that is handed out while another thread holds it
CanLockAlways(holder) == TRUE

\* Mutex::lock returns once no thread holds the mutex
CanLock(holder) == holder = NoThread

\* a guard that lives on behind its block
UnlockKept(holder, t) == holder

\* the MutexGuard is dropped at the end of its block
Unlock(holder, t) == IF holder = t THEN NoThread ELSE holder

\* a record_watcher_call that counts down
RecordWatcherCallDown(n) == n - 1

\* stats.record_watcher_call(): self.watcher_calls += 1
RecordWatcherCall(n) == n + 1

\* what update_resource_usage can read for this process; the fields stay as
\* they are when the process is not found
Readings == {NoUsage, [memory |-> 2048, cpu |-> 50]}

otherVars ==
    <<clock, ticks, chan, calls, config, loopVars, pc, runnerVars,
      filterVars, last_dry_run, setupVars, sent>>

\* a thread locks the collector to record a file change ("fc") or a watcher
\* call ("wc")
Lock(t, op) ==
    /\ tpc[t] = "idle"
    /\ iter[t][op] < Iterations
    /\ CanLock(mutex)
    /\ mutex' = t
    /\ tpc' = [tpc EXCEPT ![t] = IF op = "fc" THEN "fc_load" ELSE "wc_load"]
    /\ UNCHANGED <<iter, tmp, usage, shown, statsVars, otherVars>>

\* `+= 1`, first half: the counter is read
Load(t) ==
    /\ tpc[t] \in {"fc_load", "wc_load"}
    /\ tmp' = [tmp EXCEPT ![t] = IF tpc[t] = "fc_load" THEN file_changes
                                  ELSE watcher_calls]
    /\ tpc' = [tpc EXCEPT ![t] = IF tpc[t] = "fc_load" THEN "fc_store"
                                  ELSE "wc_store"]
    /\ UNCHANGED <<mutex, iter, usage, shown, statsVars, otherVars>>

\* `+= 1`, second half: the sum is written; then the guard is dropped
Store(t) ==
    /\ tpc[t] \in {"fc_store", "wc_store"}
    /\ IF tpc[t] = "fc_store"
       THEN /\ file_changes' = RecordFileChange(tmp[t], TRUE)
            /\ iter' = [iter EXCEPT ![t].fc = @ + 1]
            /\ UNCHANGED watcher_calls
       ELSE /\ watcher_calls' = RecordWatcherCall(tmp[t])
            /\ iter' = [iter EXCEPT ![t].wc = @ + 1]
            /\ UNCHANGED file_changes
    /\ mutex' = Unlock(mutex, t)
    /\ tpc' = [tpc EXCEPT ![t] = "idle"]
    /\ UNCHANGED <<tmp, usage, shown, otherVars>>

\* the timer thread wakes from its sleep and locks the collector
TimerLock ==
    /\ tpc[Timer] = "idle"
    /\ CanLock(mutex)
    /\ mutex' = Timer
    /\ tpc' = [tpc EXCEPT ![Timer] = "update"]
    /\ UNCHANGED <<iter, tmp, usage, shown, statsVars, otherVars>>

\* stats.update_resource_usage()
UpdateResourceUsage(reading) ==
    /\ tpc[Timer] = "update"
    /\ usage' = reading
    /\ tpc' = [tpc EXCEPT ![Timer] = "display"]
    /\ UNCHANGED <<mutex, iter, tmp, shown, statsVars, otherVars>>

\* a display that starts the counters and the usage afresh
AfterDisplayReset(collector) == NoDisplay

\* the collector that display_stats(&self) leaves: it only reads the fields
\* and prints them
AfterDisplay(collector) == collector

\* stats.display_stats(); then the guard is dropped and the thread sleeps
DisplayStats ==
    /\ tpc[Timer] = "display"
    /\ LET collector == [file_changes |-> file_changes,
                         watcher_calls |-> watcher_calls, usage |-> usage]
       IN /\ shown' = collector
          /\ file_changes' = AfterDisplay(collector).file_changes
          /\ watcher_calls' = AfterDisplay(collector).watcher_calls
          /\ usage' = AfterDisplay(collector).usage
    /\ mutex' = Unlock(mutex, Timer)
    /\ tpc' = [tpc EXCEPT ![Timer] = "idle"]
    /\ UNCHANGED <<iter, tmp, otherVars>>

NextStats ==
    \/ \E t \in Workers, op \in {"fc", "wc"} : Lock(t, op)
    \/ \E t \in Workers : Load(t)
    \/ \E t \in Workers : Store(t)
    \/ TimerLock
    \/ \E reading \in Readings : UpdateResourceUsage(reading)
    \/ DisplayStats

SpecStats == InitStats /\ [][NextStats]_vars

\* ------------------------------------------------------------------------
\* setup_watcher: the --watch arguments are registered with the watcher
\* ------------------------------------------------------------------------

\* str::split('/'), as Path::components cuts a path
RECURSIVE SplitSep(_)
SplitSep(s) ==
    IF SepPositions(s) = {} THEN <<s>>
    ELSE LET i == CHOOSE x \in SepPositions(s) : \A y \in SepPositions(s) : x <= y
         IN <<SubSeq(s, 1, i - 1)>> \o SplitSep(Drop(s, i))

\* Path::components of a relative path, by which PathBuf implements Eq and
\* Hash: empty components and "." are dropped, except a "." at the start
Components(path) ==
    LET parts == SplitSep(path)
        named == SelectSeq(parts, LAMBDA c : c # << >> /\ c # <<".">>)
    IN IF Head(parts) = <<".">> THEN << <<".">> >> \o named ELSE named

\* the directory that a relative path leads to from the working directory
DirOf(path) == SelectSeq(Components(path), LAMBDA c : c # <<".">>)

\* what WalkDir::new(".") yields, in its order: the working directory with
\* the directories .hg, n, s and s/c and the files n/i.js and s/a.js
Entries ==
    << [path |-> <<".">>, dir |-> TRUE],
       [path |-> <<".", "/">> \o <<".", "h", "g">>, dir |-> TRUE],
       [path |-> <<".", "/">> \o <<"n">>, dir |-> TRUE],
       [path |-> <<".", "/">> \o PathDep, dir |-> FALSE],
       [path |-> <<".", "/">> \o <<"s">>, dir |-> TRUE],
       [path |-> <<".", "/">> \o PathApp, dir |-> FALSE],
       [path |-> <<".", "/">> \o <<"s", "/", "c">>, dir |-> TRUE] >>

\* path_obj.exists() && path_obj.is_dir()
IsDir(path) ==
    \E i \in 1..Len(Entries) :
        Entries[i].dir /\ DirOf(Entries[i].path) = DirOf(path)

\* should_skip_dir of the binary: a user ignore pattern matches the path
should_skip_dir(path, ignore_patterns) ==
    \E i \in 1..Len(ignore_patterns) : MatchesPath(ignore_patterns[i], path)

\* the entries left by filter_entry: an entry that is skipped is not
\* yielded and not descended into
Walked(ignore_patterns) ==
    SelectSeq(Entries, LAMBDA e :
        ~ \E a \in ({e.path} \cup Ancestors(e.path)) \ {<< >>} :
              should_skip_dir(a, ignore_patterns))

\* glob::Pattern::new: the tokens of a pattern string; "**" has to be a
\* whole component and takes the separator after it, otherwise the pattern
\* is invalid
InvalidToken == "<invalid>"
RECURSIVE Compile(_, _)
Compile(s, at_start) ==
    IF s = << >> THEN << >>
    ELSE IF Head(s) = "*" /\ Len(s) >= 2 /\ s[2] = "*"
    THEN IF at_start /\ (Len(s) = 2 \/ IsSeparator(s[3]))
         THEN <<"**">> \o Compile(Drop(s, IF Len(s) = 2 THEN 2 ELSE 3), TRUE)
         ELSE <<InvalidToken>>
    ELSE <<Head(s)>> \o Compile(Tail(s), IsSeparator(Head(s)))

ValidPattern(s) ==
    \A i \in 1..Len(Compile(s, TRUE)) : Compile(s, TRUE)[i] # InvalidToken

\* the walk of one glob spec: the paths of the directories that match and
\* whose insert into watched_paths returns true, in walk order
RECURSIVE Matched(_, _, _)
Matched(entries, pattern, keys) ==
    IF entries = << >> THEN << >>
    ELSE LET e == Head(entries)
         IN IF /\ e.dir
               /\ MatchesPath(pattern, e.path)
               /\ Components(e.path) \notin keys
            THEN <<e.path>> \o Matched(Tail(entries), pattern,
                                       keys \cup {Components(e.path)})
            ELSE Matched(Tail(entries), pattern, keys)

\* the paths that one iteration of `for pattern_str in &args.watch` gives
\* to watcher.watch: the spec itself when it is a directory that is not in
\* watched_paths, or the new matches of the spec read as a glob
Targets(pattern_str, keys) ==
    IF IsDir(pattern_str)
    THEN IF Components(pattern_str) \in keys THEN << >> ELSE <<pattern_str>>
    ELSE Matched(Walked(IgnoreGlobs), Compile(pattern_str, TRUE), keys)

\* --watch arguments: s, ./s, n, **/s, ./*, s** and x
WatchSpecs ==
    {<<"s">>, <<".", "/", "s">>, <<"n">>, <<"*", "*", "/", "s">>,
     <<".", "/", "*">>, <<"s", "*", "*">>, <<"x">>}

InitSetup ==
    /\ restart = FALSE
    /\ debounce = DefaultDebounce
    /\ stats_enabled = FALSE
    /\ command = EchoCommand
    /\ watch \in UNION {[1..n -> WatchSpecs] : n \in 1..MaxSpecs}
    /\ Start
    /\ StartStats
    /\ StartSetup
    /\ StartArgs

\* a warning that ends setup_watcher
WarnFatal(status) == "failed"

\* the two warnings of setup_watcher ("No directories matched pattern",
\* "No paths are being watched!") are printed and nothing else happens
Warn(status) == status

\* one iteration of the loop over args.watch; watcher.watch succeeds for
\* the first k targets, and a failing call or an invalid glob ends
\* setup_watcher through `?`
WatchNext(k) ==
    /\ setup = "running"
    /\ next_spec <= Len(watch)
    /\ LET pattern_str == watch[next_spec]
           targets == Targets(pattern_str, watched_paths)
           tried == SubSeq(targets, 1, IF k < Len(targets) THEN k + 1 ELSE k)
       IN /\ k <= Len(targets)
          /\ IF ~IsDir(pattern_str) /\ ~ValidPattern(pattern_str)
             THEN /\ k = 0
                  /\ setup' = "failed"
                  /\ UNCHANGED <<next_spec, watched_paths, registered,
                                 watch_count>>
             ELSE /\ watched_paths' = watched_paths \cup
                        {Components(tried[i]) : i \in 1..Len(tried)}
                  /\ registered' = registered \o SubSeq(targets, 1, k)
                  /\ watch_count' = watch_count + k
                  /\ IF k < Len(targets)
                     THEN setup' = "failed" /\ UNCHANGED next_spec
                     ELSE /\ next_spec' = next_spec + 1
                          /\ setup' = IF targets = << >> /\ ~IsDir(pattern_str)
                                       THEN Warn(setup) ELSE setup
    /\ UNCHANGED <<clock, ticks, chan, calls, config, loopVars, pc,
                   runnerVars, statsVars, filterVars, last_dry_run,
                   threadVars, sent>>

\* the loop is over: a warning when nothing is watched, and the watcher is
\* kept alive
SetupEnd ==
    /\ setup = "running"
    /\ next_spec > Len(watch)
    /\ setup' = IF watch_count = 0 THEN Warn("done") ELSE "done"
    /\ UNCHANGED <<clock, ticks, chan, calls, config, loopVars, pc,
                   runnerVars, statsVars, filterVars, last_dry_run,
                   threadVars, next_spec, watched_paths, registered,
                   watch_count, sent>>

NextSetup == (\E k \in 0..Len(Entries) : WatchNext(k)) \/ SetupEnd

SpecSetup == InitSetup /\ [][NextSetup]_vars

\* ------------------------------------------------------------------------
\* merge_config: the Args of the command line and the Config of a file
\* ------------------------------------------------------------------------

\* a value of the command line that is not the default of its field
CliValue ==
    [command |-> EchoCommand, watch |-> << <<"s">> >>, ext |-> WatchedExt,
     pattern |-> << <<"s", "/", "*">> >>, ignore |-> << <<"n">> >>,
     debounce |-> LongDebounce, initial |-> TRUE, clear |-> TRUE,
     restart |-> TRUE, stats |-> TRUE, stats_interval |-> 5]

\* the values that a file gives to a field: one that nothing else has, and
\* the default of the field (for ext, whose default is None, an empty list)
FileValues ==
    [command |-> <<<<"l", "s">>, << >>>>,
     watch |-> << << <<"n">> >>, DefaultWatch >>,
     ext |-> << <<"t", "s">>, << >> >>,
     pattern |-> << << <<"*", "*">> >>, << >> >>,
     ignore |-> << << <<"s", "/", "c">> >>, << >> >>,
     debounce |-> <<0, DefaultDebounce>>,
     initial |-> <<TRUE, FALSE>>, clear |-> <<TRUE, FALSE>>,
     restart |-> <<TRUE, FALSE>>, stats |-> <<TRUE, FALSE>>,
     stats_interval |-> <<1, DefaultStatsInterval>>]

\* the sets of at most MaxGiven fields
FieldSets == {T \in SUBSET DOMAIN DefaultArgs : Cardinality(T) <= MaxGiven}

\* the Args of a command line that sets the fields of T
CliOf(T) ==
    [f \in DOMAIN DefaultArgs |-> IF f \in T THEN CliValue[f] ELSE DefaultArgs[f]]

\* the Config of a file with the keys of T, the key f with its value ch[f]
ConfigOf(T, ch) ==
    [f \in DOMAIN NoConfig |->
        IF f = "given" THEN TRUE
        ELSE IF f \notin T THEN NoConfig[f]
        ELSE IF f = "command" THEN FileValues[f][ch[f]]
        ELSE Some(FileValues[f][ch[f]])]

Configs == UNION {{ConfigOf(T, ch) : ch \in [T -> 1..2]} : T \in FieldSets}

\* the configuration in the variables is the one of the Args
Configured(a) ==
    /\ command = a.command
    /\ watch = a.watch
    /\ debounce = a.debounce
    /\ restart = a.restart
    /\ stats_enabled = a.stats

InitMerge ==
    /\ startup \in {[cli |-> c, config_file |-> f, args |-> c] :
                        c \in {CliOf(T) : T \in FieldSets}, f \in Configs}
    /\ Configured(cli)
    /\ Start
    /\ StartStats
    /\ next_spec = 1
    /\ watched_paths = {}
    /\ registered = << >>
    /\ watch_count = 0
    /\ setup = "merge"

\* main: `if let Some(config_path) = &args.config` loads the file and
\* merges it into the Args
Merge ==
    /\ setup = "merge"
    /\ startup' = [startup EXCEPT !.args =
                       IF config_file.given THEN merge_config(args, config_file)
                       ELSE args]
    /\ command' = args'.command
    /\ watch' = args'.watch
    /\ debounce' = args'.debounce
    /\ restart' = args'.restart
    /\ stats_enabled' = args'.stats
    /\ setup' = "validate"
    /\ UNCHANGED <<clock, ticks, chan, calls, loopVars, pc,
                   runnerVars, statsVars, filterVars, last_dry_run,
                   threadVars, next_spec, watched_paths, registered,
                   watch_count, sent>>

NextMerge == Merge

SpecMerge == InitMerge /\ [][NextMerge]_vars

\* ------------------------------------------------------------------------
\* main from Args::parse() to the loop: merge, validation, setup_watcher
\* ------------------------------------------------------------------------

\* a validation that accepts every Args
validate_args_ok(a) == "Ok"

\* validate_args, and the same test in main: the command must not be empty
validate_args(a) == IF a.command = << >> THEN "Err" ELSE "Ok"

\* glob::Pattern::new over a list of pattern strings, collected into a
\* Result: one invalid pattern makes the whole an Err
CompileAll(strs) ==
    IF \A i \in 1..Len(strs) : ValidPattern(strs[i])
    THEN [ok |-> TRUE, patterns |-> [i \in 1..Len(strs) |-> Compile(strs[i], TRUE)]]
    ELSE [ok |-> FALSE, patterns |-> << >>]

\* a pattern string that glob::Pattern::new rejects, and the --ignore of
\* which IgnoreGlobs is the compiled form
BadGlob == <<"s", "*", "*">>
IgnoreArg == << <<"*", "*", "/", "n", "/", "*", "*">> >>

\* the command lines and the config files of the startup
StartupClis ==
    {[DefaultArgs EXCEPT !.command = c, !.ext = WatchedExt, !.pattern = p,
                         !.ignore = g, !.watch = w, !.initial = i] :
        c \in {<< >>, EchoCommand},
        p \in {<< >>, <<BadGlob>>},
        g \in {IgnoreArg, IgnoreArg \o <<BadGlob>>},
        w \in {DefaultWatch, << <<"s">>, BadGlob >>, << <<"x">> >>},
        i \in BOOLEAN}
StartupFiles ==
    {NoConfig,
     [NoConfig EXCEPT !.given = TRUE, !.command = EchoCommand],
     [NoConfig EXCEPT !.given = TRUE, !.pattern = Some(<<BadGlob>>)]}

InitStartup ==
    /\ startup \in {[cli |-> c, config_file |-> f, args |-> c] :
                        c \in StartupClis, f \in StartupFiles}
    /\ Configured(cli)
    /\ Start
    /\ StartStats
    /\ next_spec = 1
    /\ watched_paths = {}
    /\ registered = << >>
    /\ watch_count = 0
    /\ setup = "merge"

\* main bails out when no command is left after the merge
Validate ==
    /\ setup = "validate"
    /\ setup' = IF validate_args(args) = "Err" THEN "no_command" ELSE "compile"
    /\ UNCHANGED <<clock, ticks, chan, calls, config, loopVars, pc,
                   runnerVars, statsVars, filterVars, last_dry_run,
                   threadVars, next_spec, watched_paths, registered,
                   watch_count, sent>>

\* main compiles --pattern and --ignore, each with `?`, creates the runner
\* and with --initial calls runner.run(); setup_watcher is called when that
\* run has returned
CompilePatterns ==
    /\ setup = "compile"
    /\ IF CompileAll(args.pattern).ok /\ CompileAll(args.ignore).ok
       THEN /\ setup' = "running"
            /\ pc' = IF args.initial THEN "run_kill" ELSE pc
       ELSE /\ setup' = "bad_pattern"
            /\ UNCHANGED pc
    /\ UNCHANGED <<clock, ticks, chan, calls, config, loopVars, runnerVars,
                   statsVars, filterVars, last_dry_run, threadVars, next_spec,
                   watched_paths, registered, watch_count, sent>>

\* the watcher calls back once a directory is registered with it; the loop
\* receives once setup_watcher has returned Ok
NextStartup ==
    \/ Merge
    \/ Validate
    \/ CompilePatterns
    \/ pc = "recv" /\ \E k \in 0..Len(Entries) : WatchNext(k)
    \/ pc = "recv" /\ SetupEnd
    \/ /\ registered # << >>
       /\ WatcherCallback("Modify", <<PathApp>>)
       /\ UNCHANGED sent
    \/ setup = "done" /\ Receive
    \/ RunKill
    \/ \E ok \in BOOLEAN : RunSpawn(ok)
    \/ \E o \in WaitOutcomes : RunWait(o)

SpecStartup == InitStartup /\ [][NextStartup]_vars

\* ------------------------------------------------------------------------
\* should_skip_dir of the library as a function
\* ------------------------------------------------------------------------

\* common_ignores: .git, node_modules, target, .svn and .hg
Markers ==
    {<<".", "g", "i", "t">>,
     <<"n", "o", "d", "e", "_", "m", "o", "d", "u", "l", "e", "s">>,
     <<"t", "a", "r", "g", "e", "t">>,
     <<".", "s", "v", "n">>,
     <<".", "h", "g">>}

\* a test that only finds a marker that is a whole component of the path
ContainsComponent(s, sub) ==
    \E i \in 1..Len(SplitSep(s)) : SplitSep(s)[i] = sub

\* str::contains
Contains(s, sub) ==
    \E i \in 1..(Len(s) - Len(sub) + 1) : SubSeq(s, i, i + Len(sub) - 1) = sub

\* should_skip_dir of the library: a built-in marker occurs in the path, or
\* a user pattern that compiles matches it
lib_should_skip_dir(path, ignore_patterns) ==
    \/ \E m \in Markers : Contains(path, m)
    \/ \E i \in 1..Len(ignore_patterns) :
          /\ ValidPattern(ignore_patterns[i])
          /\ MatchesPath(Compile(ignore_patterns[i], TRUE), path)

\* .git, s/.git, git, xtarget, Target, node_modules, .hg, .svn, s and n
SkipPaths ==
    {<<".", "g", "i", "t">>, <<"s", "/", ".", "g", "i", "t">>,
     <<"g", "i", "t">>, <<"x", "t", "a", "r", "g", "e", "t">>,
     <<"T", "a", "r", "g", "e", "t">>,
     <<"n", "o", "d", "e", "_", "m", "o", "d", "u", "l", "e", "s">>,
     <<".", "h", "g">>, <<".", "s", "v", "n">>, <<"s">>, <<"n">>}

\* no pattern, "s", "s**" (invalid), both, "*" and "g*"
SkipPatterns ==
    {<< >>, << <<"s">> >>, <<BadGlob>>, <<BadGlob, <<"s">> >>,
     << <<"*">> >>, << <<"g", "*">> >>}

SkipQueries ==
    [path : SkipPaths, ext : {NoExt}, include : {<< >>}, ignore : SkipPatterns]

\* the patterns of a list that glob::Pattern::new accepts, compiled
CompiledValid(strs) ==
    LET valid == SelectSeq(strs, ValidPattern)
    IN [i \in 1..Len(valid) |-> Compile(valid[i], TRUE)]

\* both copies return; each passes over a pattern that does not compile
AnswerSkip ==
    /\ fq # NoQuery
    /\ ~fres.asked
    /\ fres' = [asked |-> TRUE,
                main |-> should_skip_dir(fq.path, CompiledValid(fq.ignore)),
                lib |-> lib_should_skip_dir(fq.path, fq.ignore)]
    /\ UNCHANGED <<clock, ticks, chan, calls, config, loopVars, pc,
                   runnerVars, statsVars, fq, sideVars, sent>>

NextSkip == (\E q \in SkipQueries : Ask(q)) \/ AnswerSkip

SpecSkip == InitPath /\ [][NextSkip]_vars

\* ------------------------------------------------------------------------
\* The loop beside the timer thread: where the main thread has to wait
\* ------------------------------------------------------------------------

InitBlock ==
    /\ restart \in BOOLEAN
    /\ debounce = 0
    /\ stats_enabled \in BOOLEAN
    /\ command = EchoCommand
    /\ watch = DefaultWatch
    /\ Start
    /\ StartStats
    /\ StartSetup
    /\ StartArgs

\* the loop up to stats_collector.lock()
ReceiveBlock == ReceiveUpTo(TRUE) /\ UNCHANGED hist

\* `if args.stats`: the main thread gets the lock, counts the file change
\* and drops the guard at the end of the block
RecordLocked ==
    /\ pc = "record"
    /\ CanLock(mutex)
    /\ file_changes' = RecordFileChange(file_changes, TRUE)
    /\ pc' = "run_kill"
    /\ UNCHANGED <<clock, ticks, chan, calls, config, loopVars, runnerVars,
                   watcher_calls, filterVars, sideVars, sent>>

\* the steps that the main thread takes without another thread or process
MainAlone ==
    \/ ReceiveBlock
    \/ RecordLocked
    \/ RunKill
    \/ \E ok \in BOOLEAN : RunSpawn(ok)

\* the timer thread exists under --stats; the callback locks the collector
\* under --stats before it counts
NextBlock ==
    \/ MainAlone
    \/ \E o \in WaitOutcomes : RunWait(o)
    \/ \E p \in Pids : ChildExit(p)
    \/ /\ stats_enabled => CanLock(mutex)
       /\ \E k \in {"Modify", "Access"} : WatcherCallback(k, <<PathApp>>)
       /\ UNCHANGED sent
    \/ stats_enabled /\ TimerLock
    \/ \E reading \in Readings : UpdateResourceUsage(reading)
    \/ DisplayStats

SpecBlock == InitBlock /\ [][NextBlock]_vars

\* ------------------------------------------------------------------------
\* The loop under debounce windows around the retention of the purge
\* ------------------------------------------------------------------------

\* --debounce 100, 10000 and 20000 in restart mode
InitPurge ==
    /\ restart = TRUE
    /\ debounce \in {DefaultDebounce, Retention, LongDebounce}
    /\ stats_enabled = TRUE
    /\ command = EchoCommand
    /\ watch = DefaultWatch
    /\ Start
    /\ StartStats
    /\ StartSetup
    /\ StartArgs

\* modifications of the two paths that pass the filters
NextPurge ==
    \/ Receive
    \/ \E d \in Steps : Tick(d)
    \/ /\ \E p \in {PathApp, PathLib} : WatcherCallback("Modify", <<p>>)
       /\ UNCHANGED sent
    \/ RunKill
    \/ \E ok \in BOOLEAN : RunSpawn(ok)
    \/ \E p \in Pids : ChildExit(p)

SpecPurge == InitPurge /\ [][NextPurge]_vars

\* ------------------------------------------------------------------------
\* The three threads around the stats mutex, guard by guard
\* ------------------------------------------------------------------------

\* the main thread and the thread on which notify calls the closure
MainThread == 1
CallbackThread == 2

\* stats_collector.lock() of the main loop returns the guard
GuardTake ==
    /\ pc = "record"
    /\ CanLock(mutex)
    /\ mutex' = MainThread
    /\ pc' = "locked"
    /\ UNCHANGED <<clock, ticks, chan, calls, config, loopVars, runnerVars,
                   statsVars, filterVars, last_dry_run, tpc, iter, tmp, usage,
                   shown, setupVars, sent>>

\* stats.record_file_change(); the block ends, the guard is dropped and
\* runner.run() is next
GuardDrop ==
    /\ pc = "locked"
    /\ file_changes' = RecordFileChange(file_changes, TRUE)
    /\ mutex' = Unlock(mutex, MainThread)
    /\ pc' = "run_kill"
    /\ UNCHANGED <<clock, ticks, chan, calls, config, loopVars, runnerVars,
                   watcher_calls, filterVars, last_dry_run, tpc, iter, tmp,
                   usage, shown, setupVars, sent>>

\* the closure is called with Ok(event): under --stats it takes the lock
CallbackEnter ==
    /\ tpc[CallbackThread] = "idle"
    /\ calls < MaxEvents
    /\ Len(chan) < MaxQueue
    /\ calls' = calls + 1
    /\ IF stats_enabled
       THEN /\ CanLock(mutex)
            /\ mutex' = CallbackThread
            /\ tpc' = [tpc EXCEPT ![CallbackThread] = "wc_store"]
       ELSE /\ tpc' = [tpc EXCEPT ![CallbackThread] = "send"]
            /\ UNCHANGED mutex
    /\ UNCHANGED <<clock, ticks, chan, config, loopVars, pc, runnerVars,
                   statsVars, filterVars, last_dry_run, iter, tmp, usage,
                   shown, setupVars, sent>>

\* stats.record_watcher_call(); the block ends and the guard is dropped
CallbackCount ==
    /\ tpc[CallbackThread] = "wc_store"
    /\ watcher_calls' = RecordWatcherCall(watcher_calls)
    /\ mutex' = Unlock(mutex, CallbackThread)
    /\ tpc' = [tpc EXCEPT ![CallbackThread] = "send"]
    /\ UNCHANGED <<clock, ticks, chan, calls, config, loopVars, pc,
                   runnerVars, file_changes, filterVars, last_dry_run, iter,
                   tmp, usage, shown, setupVars, sent>>

\* `match event.kind`, which is looked at behind the block of the guard, and
\* the sends; the closure returns
CallbackSend(kind, paths) ==
    /\ tpc[CallbackThread] = "send"
    /\ chan' = Send(chan, Forwarded(kind, paths))
    /\ tpc' = [tpc EXCEPT ![CallbackThread] = "idle"]
    /\ UNCHANGED <<clock, ticks, calls, config, loopVars, pc, runnerVars,
                   statsVars, filterVars, last_dry_run, mutex, iter, tmp,
                   usage, shown, setupVars, sent>>

\* the steps in which a thread works on the collector under its guard
Holding ==
    \/ GuardDrop
    \/ CallbackCount
    \/ \E reading \in Readings : UpdateResourceUsage(reading)
    \/ DisplayStats

NextGuard ==
    \/ ReceiveBlock
    \/ GuardTake
    \/ RunKill
    \/ \E ok \in BOOLEAN : RunSpawn(ok)
    \/ \E o \in WaitOutcomes : RunWait(o)
    \/ \E p \in Pids : ChildExit(p)
    \/ CallbackEnter
    \/ \E k \in {"Modify", "Access"} : CallbackSend(k, <<PathApp>>)
    \/ stats_enabled /\ TimerLock
    \/ Holding

SpecGuard == InitBlock /\ [][NextGuard]_vars

\* ------------------------------------------------------------------------
\* Properties
\* ------------------------------------------------------------------------

\* the step in which the loop takes an event from the channel
ReceiveStep == pc = "recv" /\ Len(chan') < Len(chan)

\* the step in which run() returns to the loop
ReturnStep ==
    /\ pc \in {"run_spawn", "run_wait"}
    /\ pc' \notin {"run_spawn", "run_wait"}

\* the pid of the child spawned last
LastSpawned ==
    IF \A i \in Pids : procs[i] = "none" THEN NoProc
    ELSE Max({i \in Pids : procs[i] # "none"})

\* the children that are alive
Alive == {i \in Pids : procs[i] = "running"}

\* C1 as stated: once a path has been dispatched at T, no event for it that
\* the loop receives before T + debounce is dispatched, whatever the events
\* on other paths, the window and the command durations are.
C1_NoRedispatchWithinWindow ==
    (last_event.verdict = "dispatched" /\ last_event.prior # NoTime)
        => last_event.at >= last_event.prior + debounce

\* C1 as amended: while the debounce map still holds T for a path, no event
\* for that path received before T + debounce is dispatched.
C1_NoRedispatchWhileEntryHeld ==
    (last_event.verdict = "dispatched" /\ last_event.seen # NoTime)
        => last_event.at >= last_event.seen + debounce

\* an event received inside the window of a held entry, after the dispatch,
\* has been dropped
C1_Witness ==
    /\ last_event.verdict = "debounced"
    /\ last_event.seen # NoTime
    /\ last_event.at > last_event.seen
    /\ last_event.at < last_event.seen + debounce

\* C2: in restart mode run() kills and reaps the held child before it
\* spawns, and after a successful run() the held handle is the child that
\* this run() spawned, every earlier child being reaped.
C2_KillThenSpawn ==
    restart =>
        /\ (pc = "run_spawn" /\ current_process # NoProc)
              => procs[current_process] = "reaped"
        /\ (pc = "recv" /\ last_run.result = "Ok")
              => /\ current_process = LastSpawned
                 /\ procs[current_process] \in {"running", "exited"}
                 /\ \A i \in 1..(current_process - 1) : procs[i] = "reaped"

\* a second run() has replaced the first child by the second
C2_Witness ==
    /\ restart
    /\ pc = "recv"
    /\ last_run.result = "Ok"
    /\ procs[1] = "reaped"
    /\ current_process = 2
    /\ procs[2] = "running"

\* C3: at most one spawned child is alive at any point, and without restart
\* mode none is alive when run() has returned.
C3_AtMostOneAlive ==
    /\ Cardinality(Alive) <= 1
    /\ (~restart /\ pc \in {"recv", "run_kill", "run_spawn"}) => Alive = {}

\* a second command runs after the first one has gone
C3_Witness ==
    /\ procs[1] = "reaped"
    /\ procs[2] = "running"

\* C4: the debounce check dispatches exactly when the map has no entry for
\* the path or at least debounce ms have passed since the entry, and a
\* dispatch records the instant of the check as the path's entry; so a
\* check at t2 >= t1 + debounce after a dispatch at t1 dispatches too.
C4_DebounceCheck ==
    last_event.verdict \in {"dispatched", "debounced"} =>
        /\ last_event.verdict = "dispatched"
              <=> \/ last_event.seen = NoTime
                  \/ last_event.at - last_event.seen >= debounce
        /\ last_event.verdict = "dispatched"
              => recently_processed[last_event.path] = last_event.at

\* a second dispatch exactly one non-zero window after the first
C4_Witness ==
    /\ debounce > 0
    /\ last_event.verdict = "dispatched"
    /\ last_event.seen # NoTime
    /\ last_event.at - last_event.seen = debounce

\* C5: an event dropped by should_process_path or by the debounce check
\* changes nothing but the channel: the debounce map, the loop's `now`, the
\* counters and the runner stay as they are and the loop receives again;
\* and an accepted event received a window or more after the entry of its
\* path is dispatched, however many events were dropped in between.
C5_DroppedEventChangesNothing ==
    [][ReceiveStep =>
          /\ last_event'.verdict \in {"filtered", "debounced"}
                => /\ pc' = "recv"
                   /\ UNCHANGED <<recently_processed, now, last_dispatch,
                                  file_changes, watcher_calls,
                                  current_process, child, procs, last_run>>
          /\ ( /\ Head(chan) \in AcceptedPaths
               /\ recently_processed[Head(chan)] # NoTime
               /\ clock - recently_processed[Head(chan)] >= debounce )
                => last_event'.verdict = "dispatched"
       ]_vars

\* an event on a dispatched path has been suppressed and the entry of the
\* path is still the instant of the dispatch
C5_Witness ==
    /\ last_event.verdict = "debounced"
    /\ last_event.at > last_event.seen
    /\ recently_processed[last_event.path] = last_event.seen
    /\ pc = "recv"

\* C7 as stated: a second debounce check for the same path at the same
\* instant dispatches nothing and changes nothing, for every window.
C7_SecondCheckSkips ==
    [][( /\ ReceiveStep
         /\ last_event.verdict \in {"dispatched", "debounced"}
         /\ Head(chan) = last_event.path
         /\ clock = last_event.at )
          => /\ last_event'.verdict = "debounced"
             /\ UNCHANGED <<recently_processed, file_changes, pc>>
       ]_vars

\* C7 as amended: the same for every window of at least 1 ms.
C7_SecondCheckSkipsPositiveWindow ==
    [][( /\ debounce > 0
         /\ ReceiveStep
         /\ last_event.verdict \in {"dispatched", "debounced"}
         /\ Head(chan) = last_event.path
         /\ clock = last_event.at )
          => /\ last_event'.verdict = "debounced"
             /\ UNCHANGED <<recently_processed, file_changes, pc>>
       ]_vars

\* a path checked again at the instant of its dispatch has been skipped
C7_Witness ==
    /\ debounce > 0
    /\ last_event.verdict = "debounced"
    /\ last_event.seen = last_event.at
    /\ recently_processed[last_event.path] = last_event.at

\* C9 as stated: run() returns an error only when the spawn failed.
C9_ErrOnlyWhenSpawnFails ==
    last_run.result = "Err" => ~last_run.spawned

\* C9 as amended: run() returns an error exactly when the spawn failed or,
\* without restart mode, the wait for the spawned child failed; a child
\* that exits with any status makes run() return Ok.
C9_ErrIffSpawnOrWaitFails ==
    last_run.result # "none" =>
        /\ last_run.result = "Err"
              <=> (~last_run.spawned \/ last_run.waited = "wait_error")
        /\ last_run.waited \in {"success", "failure"} => last_run.result = "Ok"
        /\ last_run.waited # "none" => ~restart

\* a command has exited with a failing status and run() has returned Ok
C9_Witness ==
    /\ last_run.waited = "failure"
    /\ last_run.result = "Ok"

\* C10: when run() returns, with an error as with Ok, the loop purges the
\* debounce map and receives again; nothing else of the loop changes, and
\* the loop never ends.
C10_LoopSurvivesRunError ==
    [][ReturnStep =>
          /\ pc' = "recv"
          /\ recently_processed' = Retain(recently_processed, now)
          /\ UNCHANGED <<chan, now, file_changes, watcher_calls,
                         last_event, last_dispatch>>
       ]_vars

\* an event is dispatched after a run() that returned an error
C10_Witness ==
    /\ last_run.result = "Err"
    /\ pc = "run_kill"
    /\ last_event.verdict = "dispatched"

\* ------------------------------------------------------------------------
\* Properties of the scenario
\* ------------------------------------------------------------------------

\* C6: with a debounce of 100 ms, of two events for src/app.js received
\* 10 ms apart the first is dispatched and the second is not, and a third
\* event received 150 ms after the first is dispatched.
C6_Scenario ==
    /\ (Len(hist) >= 2 /\ hist[2].at = hist[1].at + 10)
          => (hist[1].dispatched /\ ~hist[2].dispatched)
    /\ ( /\ Len(hist) >= 3
         /\ hist[2].at = hist[1].at + 10
         /\ hist[3].at = hist[1].at + 150 )
          => hist[3].dispatched

\* the three events of the scenario have been received
C6_Witness ==
    /\ Len(hist) = 3
    /\ hist[2].at = hist[1].at + 10
    /\ hist[3].at = hist[1].at + 150
    /\ hist[3].dispatched
    /\ file_changes = 2

\* ------------------------------------------------------------------------
\* Properties of should_process_path
\* ------------------------------------------------------------------------

\* some ignore glob matches the path or one of its ancestors
IgnoreHit(q) ==
    \E i \in 1..Len(q.ignore) :
        \E x \in {q.path} \cup Ancestors(q.path) : MatchesPath(q.ignore[i], x)

\* C8: should_process_path, in the binary and in the library, returns false
\* for every path that an ignore glob matches, itself or by an ancestor,
\* whatever the include globs and the extension filter are.
C8_IgnoreTakesPriority ==
    (fres.asked /\ IgnoreHit(fq)) => (~fres.main /\ ~fres.lib)

\* the paths the loop has taken from the channel, in order
ReceivedPaths == [i \in 1..Len(hist) |-> hist[i].path]

\* C11: the loop takes the paths from the channel in exactly the order in
\* which the callback sent them, each once: at every moment the paths sent
\* so far are the paths received so far followed by the paths still in the
\* channel -- nothing is reordered, duplicated or lost.
C11_ReceivedInSendOrder ==
    sent = ReceivedPaths \o chan

\* two different paths have been received, after a notification of two paths,
\* and another path waits in the channel
C11_Witness ==
    /\ Len(hist) >= 2
    /\ hist[1].path = PathDep
    /\ hist[2].path = PathApp
    /\ chan # << >>
    /\ Head(chan) # PathApp

\* the step that is a call of dry_run()
DryRunStep == last_dry_run'.calls # last_dry_run.calls

\* C12 as stated: whenever a held handle is overwritten or cleared, by run()
\* or by dry_run(), the process it named has been killed and waited for.
C12_HandleDroppedAfterKill ==
    [][(current_process # NoProc /\ current_process' # current_process)
          => procs'[current_process] = "reaped"]_vars

\* C13: current_process is set only in restart mode, and then names a
\* process that a run() has spawned; a runner without restart mode holds no
\* handle whenever it is between calls of run() and dry_run().
C13_HandleOnlyInRestartMode ==
    /\ current_process # NoProc =>
          restart /\ procs[current_process] # "none"
    /\ ~restart => current_process = NoProc

\* a runner without restart mode has run a command and has been dry-run, and
\* holds nothing
C13_Witness ==
    /\ ~restart
    /\ pc = "recv"
    /\ last_run.spawned
    /\ last_dry_run.calls > 0
    /\ current_process = NoProc

\* C14: run() waits for the child it has spawned exactly when restart mode
\* is off.  In restart mode it returns without a wait, holding the handle of
\* the child, which is still running; without restart mode it returns only
\* when wait_with_output() has returned and the child is gone.
C14_WaitsIffNotRestart ==
    [][(ReturnStep /\ last_run'.spawned) =>
          IF restart
          THEN /\ last_run'.waited = "none"
               /\ current_process' = LastSpawned'
               /\ procs'[LastSpawned'] = "running"
          ELSE /\ last_run'.waited # "none"
               /\ procs'[LastSpawned'] = "reaped"]_vars

\* a second run() has returned: in restart mode with its child running and
\* the first child reaped, or after a wait
C14_Witness ==
    /\ pc = "recv"
    /\ last_run.spawned
    /\ LastSpawned > 1
    /\ \/ restart /\ procs[current_process] = "running" /\ procs[1] = "reaped"
       \/ ~restart /\ last_run.waited = "failure"

\* C15: dry_run() returns the "Empty command" error exactly when the command
\* vector is empty -- with a command it succeeds in either mode and whatever
\* the runner holds -- and the set of processes is the same after it.
C15_DryRunFailsIffEmpty ==
    [][DryRunStep =>
          /\ last_dry_run'.result = "Err" <=> command = << >>
          /\ procs' = procs]_vars

\* dry_run() has succeeded on a restart-mode runner that held a running
\* child, and has failed on one with an empty command that held one
C15_Witness ==
    /\ last_dry_run.calls > 0
    /\ last_dry_run.held # NoProc
    /\ procs[last_dry_run.held] = "running"
    /\ last_dry_run.result = IF command = << >> THEN "Err" ELSE "Ok"

\* C16 as stated: a successful dry_run() on a restart-mode runner with a
\* command leaves the runner holding a handle.
C16_DryRunHoldsHandle ==
    [][(DryRunStep /\ restart /\ last_dry_run'.result = "Ok")
          => current_process' # NoProc]_vars

\* C16, amended: a successful dry_run() on a restart-mode runner with a
\* command leaves current_process at None, whether or not a handle was held.
C16_DryRunHoldsNothing ==
    [][(DryRunStep /\ restart /\ last_dry_run'.result = "Ok")
          => current_process' = NoProc]_vars

\* a successful dry_run() on a restart-mode runner has cleared a held handle
C16_Witness ==
    /\ restart
    /\ last_dry_run.result = "Ok"
    /\ last_dry_run.held # NoProc
    /\ current_process = NoProc
    /\ pc = "recv"

\* C17: a runner that has only been dry-run since CommandRunner::new holds no
\* handle, in either mode and after any number of dry_run() calls.
C17_NoneAfterDryRuns ==
    (last_run = NoRun /\ pc = "recv") => current_process = NoProc

\* two consecutive dry_run() calls on a new restart-mode runner
C17_Witness ==
    /\ restart
    /\ last_run = NoRun
    /\ pc = "recv"
    /\ last_dry_run.calls >= 2
    /\ last_dry_run.result = "Ok"
    /\ current_process = NoProc

\* C18: file_changes and watcher_calls never decrease, whatever the
\* interleaving of the recording threads and the timer thread, and each of
\* them changes only in the step that completes its own record operation
\* (update_resource_usage and display_stats leave both alone).
C18_CountersMonotonic ==
    [][/\ file_changes' >= file_changes
       /\ watcher_calls' >= watcher_calls
       /\ file_changes' # file_changes =>
             \E t \in Workers : tpc[t] = "fc_store" /\ tpc'[t] = "idle"
       /\ watcher_calls' # watcher_calls =>
             \E t \in Workers : tpc[t] = "wc_store" /\ tpc'[t] = "idle"]_vars

\* both counters have grown since the timer thread updated the usage and
\* displayed them
C18_Witness ==
    /\ usage # NoUsage
    /\ shown.usage = usage
    /\ shown.file_changes > 0
    /\ shown.watcher_calls > 0
    /\ file_changes > shown.file_changes
    /\ watcher_calls > shown.watcher_calls

\* the recording threads have all finished
WorkersDone ==
    \A t \in Workers :
        tpc[t] = "idle" /\ iter[t].fc = Iterations /\ iter[t].wc = Iterations

\* C19: no update is lost: once each of the NumThreads threads has done its
\* Iterations record_file_change and record_watcher_call operations, both
\* counters are exactly NumThreads * Iterations; and a thread is inside the
\* collector (reading or changing it) only while it holds the mutex.
C19_NoLostUpdate ==
    /\ \A t \in Threads : tpc[t] # "idle" => mutex = t
    /\ WorkersDone =>
          /\ file_changes = NumThreads * Iterations
          /\ watcher_calls = NumThreads * Iterations

\* all threads have finished, after the timer thread has displayed counters
\* in the middle of the run
C19_Witness ==
    /\ WorkersDone
    /\ file_changes = NumThreads * Iterations
    /\ shown.file_changes > 0
    /\ shown.file_changes < file_changes

\* C20 as stated: no directory is given to the watcher twice during setup,
\* whether it came from a plain directory spec or from a match of a glob
\* spec: no two registered paths lead to the same directory.
C20_NoDirectoryTwice ==
    \A i, j \in 1..Len(registered) :
        i # j => DirOf(registered[i]) # DirOf(registered[j])

MatchesNothing(pattern_str) ==
    /\ ~IsDir(pattern_str)
    /\ InvalidToken \notin {Compile(pattern_str, TRUE)[i] :
                                i \in 1..Len(Compile(pattern_str, TRUE))}
    /\ Matched(Walked(IgnoreGlobs), Compile(pattern_str, TRUE), {}) = << >>

\* C22: the iteration for a glob spec that matches no directory leaves
\* setup_watcher running, registers nothing and goes on to the next spec;
\* and a setup that has returned Ok has resolved every plain directory
\* among the specs, those after such a glob included.
C22_NoMatchOnlyWarns ==
    [][/\ (setup = "running" /\ next_spec <= Len(watch)
            /\ MatchesNothing(watch[next_spec])) =>
             /\ setup' = "running"
             /\ next_spec' = next_spec + 1
             /\ registered' = registered
       /\ setup' = "done" =>
             \A i \in 1..Len(watch) :
                 IsDir(watch[i]) => Components(watch[i]) \in watched_paths']_vars

\* a directory has been registered after a glob without a match
C22_Witness ==
    /\ setup = "done"
    /\ MatchesNothing(watch[1])
    /\ Len(watch) >= 2
    /\ registered = <<watch[2]>>

\* C24: after merge_config every field of the Args has the value of the
\* command line when that value is not the default of the field; a field
\* at its default has the value of the file when the file provides one (a
\* command that is not empty, a value that is not null), and otherwise the
\* default it had.
C24_CliWinsThenFile ==
    (setup # "merge" /\ config_file.given) =>
        \A f \in DOMAIN DefaultArgs :
            LET provided == IF f = "command" THEN config_file.command # << >>
                            ELSE config_file[f].some
                value == IF f = "command" THEN config_file.command
                         ELSE config_file[f].value
            IN args[f] = IF cli[f] # DefaultArgs[f] THEN cli[f]
                         ELSE IF provided THEN value
                         ELSE cli[f]

\* a merge with a --debounce of the command line that the file contradicts
\* and a command that only the file has
C24_Witness ==
    /\ setup = "validate"
    /\ config_file.given
    /\ cli.debounce # DefaultDebounce
    /\ config_file.debounce.some
    /\ config_file.debounce.value # cli.debounce
    /\ cli.command = << >>
    /\ args.command = config_file.command
    /\ args.command # << >>

\* the Args, once merged, with which main does not reach the loop: no
\* command, or a --pattern, an --ignore or a --watch glob that is invalid
BadArgs ==
    \/ args.command = << >>
    \/ \E i \in 1..Len(args.pattern) : ~ValidPattern(args.pattern[i])
    \/ \E i \in 1..Len(args.ignore) : ~ValidPattern(args.ignore[i])
    \/ \E i \in 1..Len(args.watch) :
          ~IsDir(args.watch[i]) /\ ~ValidPattern(args.watch[i])

\* C23: with no command after the merge, or with an invalid include, ignore
\* or watch glob, main never gets to the loop, and no event is received
\* before setup_watcher has returned Ok; the validation of the command
\* fails exactly when the merged command is empty.
C23_BadArgsNeverLoop ==
    /\ (setup # "merge" /\ BadArgs) => setup # "done"
    /\ setup # "done" => last_event = NoEvent
    /\ setup \notin {"merge", "validate"} =>
          (setup = "no_command" <=> args.command = << >>)
    /\ setup \in {"no_command", "bad_pattern"} =>
          (pc = "recv" /\ registered = << >> /\ last_run = NoRun)

\* startups that have ended with each of the errors, and one with a command
\* from the file that has reached the loop and received an event
C23_Witness ==
    /\ setup = "failed"
    /\ args.command # << >>
    /\ ~ValidPattern(args.watch[next_spec])
    /\ registered = << <<"s">> >>
    /\ last_event = NoEvent
C23_WitnessNoCommand == setup = "no_command" /\ config_file.given
C23_WitnessLoop ==
    /\ setup = "done"
    /\ cli.command = << >>
    /\ last_event # NoEvent

\* s[i..j] is one of the comma-separated tokens of s, and it is ext with
\* blanks around it
TokenIs(s, i, j, ext) ==
    /\ i = 1 \/ s[i - 1] = ","
    /\ j = Len(s) \/ s[j + 1] = ","
    /\ \A k \in i..j : s[k] # ","
    /\ \E a \in i..(j + 1) : \E b \in (a - 1)..j :
          /\ SubSeq(s, a, b) = ext
          /\ \A k \in (i..(a - 1)) \cup ((b + 1)..j) : s[k] = " "
          /\ a <= b => (s[a] # " " /\ s[b] # " ")

\* the query is blocked by no ignore glob and by no include glob, for
\* either copy of the function
Unblocked(q) ==
    /\ ~IgnoredMain(q.path, q.ignore)
    /\ q.include # << >> =>
          \E i \in 1..Len(q.include) : MatchesPath(q.include[i], q.path)

\* C25: with an extension filter, a path that no ignore or include glob
\* blocks is accepted exactly when it has an extension and that extension,
\* letter for letter and without the dot, is one of the comma-separated
\* tokens of the filter with the blanks around it trimmed; a path without
\* an extension is rejected.
C25_ExtensionFilter ==
    (fres.asked /\ fq.ext # NoExt /\ Unblocked(fq)) =>
        /\ fres.main <=>
              /\ Extension(fq.path) # NoExt
              /\ \E i \in 1..(Len(fq.ext) + 1) : \E j \in (i - 1)..Len(fq.ext) :
                    TokenIs(fq.ext, i, j, Extension(fq.path))
        /\ fres.lib = fres.main
        /\ Extension(fq.path) = NoExt => ~fres.main

\* a.ts is accepted under the filter "js, ts", whose second token has a
\* blank in front
C25_Witness ==
    /\ fres.asked
    /\ fres.main
    /\ fq.path = PathTs
    /\ fq.ext = <<"j", "s", ",", " ", "t", "s">>
    /\ Unblocked(fq)

\* the extension filter of the query lets its path through
ExtensionPasses(q) ==
    \/ q.ext = NoExt
    \/ Extension(q.path) # NoExt /\ ExtListed(q.ext, Extension(q.path))

\* C26: with include globs, a path that matches none of them is rejected
\* by both copies whatever the extension filter is; without include globs
\* the result is that of the ignore step and the extension filter alone.
C26_IncludeStep ==
    fres.asked =>
        /\ (/\ fq.include # << >>
            /\ \A i \in 1..Len(fq.include) :
                  ~MatchesPath(fq.include[i], fq.path)) =>
              (~fres.main /\ ~fres.lib)
        /\ fq.include = << >> =>
              /\ fres.main <=>
                    (~IgnoredMain(fq.path, fq.ignore) /\ ExtensionPasses(fq))
              /\ fres.lib <=>
                    (~IgnoredLib(fq.path, fq.ignore) /\ ExtensionPasses(fq))

\* a.ts is rejected by the include glob *.js alone: nothing is ignored and
\* there is no extension filter
C26_Witness ==
    /\ fres.asked
    /\ ~fres.main
    /\ ~fres.lib
    /\ fq.path = PathTs
    /\ fq.include = << <<"*", ".", "j", "s">> >>
    /\ fq.ext = NoExt
    /\ fq.ignore = << >>

\* C27: should_skip_dir of the library returns true exactly when one of
\* .git, node_modules, target, .svn or .hg occurs somewhere in the path
\* string, in that spelling, or when a user pattern that is a valid glob
\* matches the path; a pattern that is no valid glob has no effect.
C27_SkipIffMarkerOrPattern ==
    fres.asked =>
        /\ fres.lib <=>
              \/ \E m \in Markers : \E i \in 0..Len(fq.path) :
                    \E j \in i..Len(fq.path) : SubSeq(fq.path, i + 1, j) = m
              \/ \E i \in 1..Len(fq.ignore) :
                    /\ InvalidToken \notin
                          {Compile(fq.ignore[i], TRUE)[k] :
                              k \in 1..Len(Compile(fq.ignore[i], TRUE))}
                    /\ MatchesPath(Compile(fq.ignore[i], TRUE), fq.path)
        /\ fres.lib = lib_should_skip_dir(fq.path,
                         SelectSeq(fq.ignore, ValidPattern))

\* xtarget is skipped for the marker inside its name, without a pattern
C27_Witness ==
    /\ fres.asked
    /\ fres.lib
    /\ fq.path = <<"x", "t", "a", "r", "g", "e", "t">>
    /\ fq.ignore = << >>

\* s is skipped for the pattern "s" that follows an invalid one, and not
\* skipped when the invalid one stands alone
C27_WitnessInvalid ==
    /\ fres.asked
    /\ ~fres.lib
    /\ fq.path = <<"s">>
    /\ fq.ignore = <<BadGlob>>

\* C28: a directory that a glob watch spec has brought in has none of the
\* built-in markers .git, node_modules, target, .svn and .hg in its path,
\* whatever the --ignore patterns are.
C28_MarkersNeverRegistered ==
    \A i \in 1..Len(registered) :
        (\E m \in Markers : Contains(registered[i], m)) =>
            \E k \in 1..Len(watch) :
                IsDir(watch[k]) /\ watch[k] = registered[i]

C31_DisplayChangesNothing ==
    [][(tpc[Timer] = "display" /\ tpc'[Timer] = "idle") =>
          /\ file_changes' = file_changes
          /\ watcher_calls' = watcher_calls
          /\ usage' = usage
          /\ shown' = [file_changes |-> file_changes,
                       watcher_calls |-> watcher_calls, usage |-> usage]]_vars

\* the timer thread has just displayed a collector with counts and usage
\* in it, and the collector still holds them
C31_Witness ==
    /\ tpc[Timer] = "idle"
    /\ mutex = NoThread
    /\ file_changes > 0
    /\ watcher_calls > 0
    /\ usage # NoUsage
    /\ shown = [file_changes |-> file_changes,
                watcher_calls |-> watcher_calls, usage |-> usage]

\* what a loop that never purges decides for the last event: last_dispatch
\* is the debounce map of that loop, every dispatch time of a path kept
VerdictWithoutPurge ==
    IF last_event.verdict = "filtered" THEN "filtered"
    ELSE IF last_event.prior # NoTime
            /\ last_event.at - last_event.prior < debounce
    THEN "debounced"
    ELSE "dispatched"

\* C32 as stated: whatever the debounce window is, the loop with the purge
\* decides for every event what the loop without a purge decides: an event
\* is dropped by the debounce check exactly when its path was dispatched
\* less than the window ago.
C32_PurgeNeverChangesDecision ==
    last_event # NoEvent => last_event.verdict = VerdictWithoutPurge

\* C32, amended: the two loops decide alike for every debounce window that
\* is not longer than the retention of 10000 ms.
C32_PurgeKeepsDecisionUpToRetention ==
    (last_event # NoEvent /\ debounce <= Retention) =>
        last_event.verdict = VerdictWithoutPurge

\* with a window as long as the retention, an event is dropped by an entry
\* that a purge has already gone past, and one is dispatched whose entry the
\* purge has removed
C32_Witness ==
    /\ debounce = Retention
    /\ last_event.verdict = "dispatched"
    /\ last_event.prior # NoTime
    /\ last_event.seen = NoTime
    /\ last_event.at - last_event.prior = Retention

\* the step in which run() returns to the loop
ReturnsFromRun == pc \in {"run_spawn", "run_wait"} /\ pc' = "recv"

\* C33: the debounce map loses entries only in the step in which the run()
\* of a dispatch returns, failed or not; that step removes exactly the
\* entries that are 10000 ms old or older at the instant `now` of the
\* dispatch and keeps the younger ones, so that the map then holds only
\* paths dispatched less than 10000 ms before `now`, with their last
\* dispatch time.
C33_PurgeAfterDispatch ==
    [][/\ (\E k \in Paths : /\ recently_processed[k] # NoTime
                            /\ recently_processed'[k] = NoTime)
             => ReturnsFromRun
       /\ ReturnsFromRun =>
             /\ now' = now
             /\ \A k \in Paths :
                   /\ (/\ recently_processed[k] # NoTime
                       /\ now - recently_processed[k] >= 10000)
                         => recently_processed'[k] = NoTime
                   /\ (/\ recently_processed[k] # NoTime
                       /\ now - recently_processed[k] < 10000)
                         => recently_processed'[k] = recently_processed[k]
                   /\ recently_processed[k] = NoTime
                         => recently_processed'[k] = NoTime
                   /\ recently_processed'[k] # NoTime =>
                         /\ recently_processed'[k] = last_dispatch[k]
                         /\ now - recently_processed'[k] < 10000]_vars

\* after the purge of a failed run the entry of a.js, 10000 ms old, is gone
\* and the entry of the path just dispatched is kept
C33_Witness ==
    /\ pc = "recv"
    /\ last_run.result = "Err"
    /\ recently_processed[PathApp] = NoTime
    /\ last_dispatch[PathApp] # NoTime
    /\ now - last_dispatch[PathApp] = Retention
    /\ recently_processed[PathLib] = now

\* the steps that the main thread takes by itself in the loop
LoopOwnSteps ==
    \/ ReceiveTraced
    \/ RunKill
    \/ \E ok \in BOOLEAN : RunSpawn(ok)

\* the loop with a main thread that is scheduled, and commands that may
\* run for ever
SpecLoopSched == InitChannel /\ [][NextLoop]_vars /\ WF_vars(LoopOwnSteps)

\* C34: when the main thread is scheduled and every command that run()
\* waits for exits, the n-th path that the callback has sent is eventually
\* the n-th that the loop has received, and the loop gets through its
\* iteration; without the assumption on the commands a path stays in the
\* channel for ever only while run() waits for a command.
C34_SentIsEventuallyReceived ==
    /\ WF_vars(\E o \in WaitOutcomes : RunWait(o)) =>
          \A n \in 1..MaxEvents :
              (Len(sent) >= n) ~>
                  (Len(hist) >= n /\ hist[n].path = sent[n] /\ pc = "recv")
    /\ \A n \in 1..MaxEvents :
          (Len(sent) >= n) ~> (Len(hist) >= n \/ [](pc = "run_wait"))

\* every path that was sent has been received, in its place, and the loop
\* is back at the receive after a run() that waited for its command
C34_Witness ==
    /\ Len(sent) = MaxEvents
    /\ Len(hist) = MaxEvents
    /\ \A n \in 1..MaxEvents : hist[n].path = sent[n]
    /\ pc = "recv"
    /\ ~restart
    /\ last_run.waited # "none"

\* C35: a call of the watcher callback appends to the channel the paths of
\* its notification, all of them and in their order, when the notification
\* is a Create, a Modify or a Remove, and appends nothing for another kind
\* or a watcher error; it takes nothing from the channel and leaves the
\* runner, the children, the debounce map and the position of the loop
\* alone.
C35_CallbackForwardsOnly ==
    [][\A n \in ChannelNotifications :
          CallbackTraced(n.kind, n.paths) =>
              /\ chan' = chan \o (IF n.kind = "Create" \/ n.kind = "Modify"
                                     \/ n.kind = "Remove"
                                  THEN n.paths ELSE << >>)
              /\ sent' = sent \o (IF n.kind \in {"Access", "Err"}
                                  THEN << >> ELSE n.paths)
              /\ UNCHANGED <<current_process, child, procs, last_run,
                             recently_processed, last_dispatch, now, pc>>]_vars

\* the callback has sent the two paths of a Create event in their order and
\* nothing for another notification
C35_Witness ==
    /\ calls = 2
    /\ sent = <<PathDep, PathApp>>
    /\ chan = sent

\* the dispatches that the loop has made: the received events that passed
\* should_process_path and the debounce check
Dispatches == Cardinality({i \in 1..Len(hist) : hist[i].dispatched})

\* C36: under --stats file_changes is the number of dispatches of the loop
\* at every moment, the dispatch whose command is not yet spawned and the
\* dispatches whose run() failed included; without --stats file_changes and
\* watcher_calls are 0 for the whole run.
C36_FileChangesCountDispatches ==
    /\ stats_enabled => file_changes = Dispatches
    /\ ~stats_enabled => file_changes = 0 /\ watcher_calls = 0

\* two dispatches are counted while the first run() has failed and the
\* command of the second is not yet spawned
C36_Witness ==
    /\ stats_enabled
    /\ file_changes = 2
    /\ last_run.result = "Err"
    /\ pc = "run_kill"

\* C37: the should_process_path of the library and the should_process_path
\* of the binary return the same result for every path, extension filter,
\* include-glob set and ignore-glob set.
C37_CopiesAgree ==
    fres.asked => fres.main = fres.lib

\* C38: the stats mutex is held only by a thread that stands inside its
\* update of the collector: never by the main thread while it receives or
\* while run() kills, spawns or waits, never by the callback while it
\* sends. The holder can always take its next step, so a thread in front of
\* the lock is never stuck for good, and while a command runs the free
\* mutex can be taken by the timer and by the callback.
C38_MutexOnlyAroundUpdate ==
    /\ mutex = MainThread => pc = "locked"
    /\ mutex = CallbackThread => tpc[CallbackThread] = "wc_store"
    /\ mutex = Timer => tpc[Timer] \in {"update", "display"}
    /\ mutex # NoThread => ENABLED Holding
    /\ (/\ stats_enabled
        /\ pc \in {"run_kill", "run_spawn", "run_wait"}
        /\ mutex = NoThread)
          => /\ tpc[Timer] = "idle" => ENABLED TimerLock
             /\ (/\ tpc[CallbackThread] = "idle"
                 /\ calls < MaxEvents
                 /\ Len(chan) < MaxQueue) => ENABLED CallbackEnter

\* a command runs and the main thread waits for it, after it has counted
\* the file change, while the callback holds the mutex
C38_Witness ==
    /\ pc = "run_wait"
    /\ procs[child] = "running"
    /\ file_changes = 1
    /\ mutex = CallbackThread

\* no child has been spawned so far
NeverSpawned == \A p \in Pids : procs[p] = "none"

\* C39: when startup has ended with a fatal configuration or registration
\* error, the user command has never been spawned, also under --initial; a
\* command is spawned only once setup_watcher has succeeded.
C39_NoSpawnBeforeSetup ==
    /\ setup \in {"no_command", "bad_pattern", "failed"} => NeverSpawned
    /\ ~NeverSpawned => setup = "done"

\* C39, amended: with no command or an invalid --pattern or --ignore glob
\* nothing is ever spawned, also under --initial. Without --initial a
\* command is spawned only once setup_watcher has succeeded. Under --initial
\* the command is run once in front of setup_watcher, so a registration
\* error ends a startup whose command has already run; no second run
\* happens before setup_watcher has succeeded.
C39_SpawnOnlyBehindChecks ==
    /\ (/\ setup # "merge"
        /\ \/ args.command = << >>
           \/ \E i \in 1..Len(args.pattern) : ~ValidPattern(args.pattern[i])
           \/ \E i \in 1..Len(args.ignore) : ~ValidPattern(args.ignore[i]))
          => NeverSpawned /\ last_run = NoRun /\ setup # "done"
    /\ (setup # "merge" /\ ~args.initial /\ ~NeverSpawned) => setup = "done"
    /\ (~NeverSpawned /\ setup # "done") =>
          /\ args.initial
          /\ setup \in {"running", "failed"}
          /\ Cardinality({p \in Pids : procs[p] # "none"}) = 1
    /\ (setup = "running" /\ pc # "recv") => registered = << >>

\* under --initial the command has been spawned and has ended, and then
\* setup_watcher has failed on an invalid watch glob
C39_Witness ==
    /\ setup = "failed"
    /\ args.initial
    /\ last_run.spawned
    /\ ~NeverSpawned
    /\ pc = "recv"

\* C40: in restart mode, when run() returns the error of a spawn that
\* failed, the child it held is already killed and reaped and
\* current_process still is that child, neither cleared nor replaced; the
\* head of a later run() kills and waits for the reaped child again, which
\* changes nothing and raises no error, and goes on to the spawn.
C40_FailedSpawnKeepsReapedHandle ==
    [][/\ (/\ restart
           /\ current_process # NoProc
           /\ pc = "run_spawn"
           /\ pc' # pc
           /\ procs' = procs)
             => /\ procs[current_process] = "reaped"
                /\ current_process' = current_process
                /\ last_run' = [result |-> "Err", spawned |-> FALSE,
                                waited |-> "none"]
       /\ (/\ restart
           /\ current_process # NoProc
           /\ procs[current_process] = "reaped"
           /\ pc = "run_kill"
           /\ pc' # pc)
             => /\ pc' = "run_spawn"
                /\ procs' = procs
                /\ current_process' = current_process
                /\ last_run' = last_run]_vars

\* a run() has failed in its spawn, and the next run(), with the handle of
\* the reaped child, has passed its kill and wait and stands at the spawn
C40_Witness ==
    /\ restart
    /\ last_run.result = "Err"
    /\ current_process # NoProc
    /\ procs[current_process] = "reaped"
    /\ pc = "run_spawn"

====
